----------------------- MODULE ClosedScheduler_proofs -----------------------
(***************************************************************************)
(* Machine-checked proofs about ClosedScheduler, for every finite set of   *)
(* virtual users, every set of scenarios and every number of rounds.       *)
(***************************************************************************)
EXTENDS ClosedScheduler, Sums_proofs, SequenceTheorems

-----------------------------------------------------------------------------
(* The inductive invariant.                                                 *)

RunPcs ==
    {"start", "wait", "close", "stop", "drain", "await", "awaitCanceled", "complete", "merge",
     "returned"}

UserPcs == {"done", "top", "check", "think", "send", "exec", "step", "stepThink"}

Counters ==
    [planned : Nat, started : Nat, completed : Nat, canceled : Nat,
     iterations : Nat, iterCompleted : Nat, iterFailed : Nat]

\* The type of every variable the accounting looks at.
Types ==
    /\ scenario \in Scenarios /\ thinks \in BOOLEAN
    /\ ctxDone \in BOOLEAN /\ workersCanceled \in BOOLEAN /\ stopNewRequests \in BOOLEAN
    /\ pc \in RunPcs /\ hardCanceled \in BOOLEAN
    /\ vpc \in [VUs -> UserPcs] /\ step \in [VUs -> Nat] /\ success \in [VUs -> BOOLEAN]
    /\ metrics \in [VUs -> Counters]
    /\ afterStop \in [VUs -> Nat] /\ afterCancel \in [VUs -> Nat]

Sending == {v \in VUs : vpc[v] = "exec"}

\* inFlightCount counts the single requests under way; scenario steps leave it alone.
InFlightIsSending ==
    inFlight = IF scenario = <<>> THEN Cardinality(Sending) ELSE 0

InIteration(v) == scenario # <<>> /\ vpc[v] \in {"step", "send", "exec", "stepThink"}

\* A user's own counters balance, up to the single request or the iteration it
\* is in the middle of.
UserBalanced(v) ==
    LET m == metrics[v]
        open == IF scenario = <<>> /\ vpc[v] = "exec" THEN 1 ELSE 0
        unfinished == IF InIteration(v) THEN 1 ELSE 0
    IN  /\ m.planned = m.started
        /\ m.started = m.completed + m.canceled + open
        /\ m.iterations = m.iterCompleted + m.iterFailed + unfinished
        /\ scenario = <<>> => m.iterations = 0 /\ vpc[v] \notin {"step", "stepThink"}

\* Run goes past its waits only when every user is done, and no user is running
\* before it is launched.
RunWaits == pc \in {"start", "complete", "merge", "returned"} => UsersDone

\* The users are canceled by Run only after it has stopped new requests.
CancelAfterStop ==
    /\ workersCanceled => pc \notin {"start", "wait", "close", "stop"}
    /\ pc = "returned" => result = [f \in DOMAIN NoMetrics |-> Total(f)]

\* A user that may still send has sent nothing since the context was canceled.
CancelInv ==
    \A v \in VUs :
        /\ afterCancel[v] <= 1
        /\ ~WorkerCtxDone \/ vpc[v] = "send" => afterCancel[v] = 0

\* How many requests a user can have sent since stopNewRequests closed: none if
\* it could only send by beginning anew, else the steps of its iteration so far.
StopInv ==
    \A v \in VUs :
        /\ ~stopNewRequests => afterStop[v] = 0
        /\ scenario = <<>> => afterStop[v] <= 1 /\ (vpc[v] = "send" => afterStop[v] = 0)
        /\ scenario # <<>> =>
               /\ afterStop[v] <= Len(scenario)
               /\ InIteration(v) => step[v] \in 1 .. Len(scenario)
               /\ vpc[v] \in {"step", "send"} => afterStop[v] < step[v]
               /\ vpc[v] \in {"exec", "stepThink"} => afterStop[v] <= step[v]
               /\ vpc[v] = "stepThink" => step[v] < Len(scenario)

ClosedInv ==
    /\ Types /\ InFlightIsSending /\ RunWaits /\ CancelAfterStop /\ CancelInv /\ StopInv
    /\ \A v \in VUs : UserBalanced(v)

-----------------------------------------------------------------------------
(* Facts about the constants and the helpers.                               *)

\* The scenario is a sequence of steps, and an empty one has length zero.
LEMMA ScenarioFacts ==
    ASSUME scenario \in Scenarios
    PROVE  /\ scenario \in Seq(Steps) /\ Len(scenario) \in Nat
           /\ scenario # <<>> => Len(scenario) >= 1
  BY ScenariosAssumption, LenProperties, EmptySeq

\* The users sending a request are finitely many.
LEMMA SendingFacts == IsFiniteSet(Sending) /\ Cardinality(Sending) \in Nat
  <1>1. Sending \in SUBSET VUs
    BY DEF Sending
  <1>2. IsFiniteSet(Sending)
    BY <1>1, VUsAssumption, FS_Subset
  <1>3. QED
    BY <1>2, FS_CardinalityType

\* Setting one counter keeps the type, and the other counters.
LEMMA SetCounter ==
    ASSUME NEW m \in Counters, NEW n \in Nat
    PROVE  /\ [m EXCEPT !.planned = n] \in Counters
           /\ [m EXCEPT !.started = n] \in Counters
           /\ [m EXCEPT !.completed = n] \in Counters
           /\ [m EXCEPT !.iterations = n] \in Counters
           /\ [m EXCEPT !.iterCompleted = n] \in Counters
           /\ [m EXCEPT !.iterFailed = n] \in Counters
  BY DEF Counters

\* What counting a single request or an iteration does to a user's counters.
LEMMA CountingOne ==
    ASSUME NEW m \in Counters
    PROVE  /\ CountIteration(m) \in Counters
           /\ CountIteration(m).planned = m.planned
           /\ CountIteration(m).started = m.started
           /\ CountIteration(m).completed = m.completed
           /\ CountIteration(m).canceled = m.canceled
           /\ CountIteration(m).iterations = m.iterations + 1
           /\ CountIteration(m).iterCompleted = m.iterCompleted
           /\ CountIteration(m).iterFailed = m.iterFailed
           /\ CountReturned(m) \in Counters
           /\ CountReturned(m).planned = m.planned
           /\ CountReturned(m).started = m.started
           /\ CountReturned(m).completed = m.completed + 1
           /\ CountReturned(m).canceled = m.canceled
           /\ CountReturned(m).iterations = m.iterations
           /\ CountReturned(m).iterCompleted = m.iterCompleted
           /\ CountReturned(m).iterFailed = m.iterFailed
  <1>1. m.iterations + 1 \in Nat /\ m.completed + 1 \in Nat
    BY DEF Counters
  <1>2. CountIteration(m) \in Counters /\ CountReturned(m) \in Counters
    BY <1>1, SetCounter DEF CountIteration, CountReturned
  <1>3. QED
    BY <1>2 DEF CountIteration, CountReturned, Counters

\* A single request that goes out is planned and started; a step that is done is
\* planned, started and completed.
LEMMA CountingMore ==
    ASSUME NEW m \in Counters
    PROVE  /\ CountSent(m) \in Counters
           /\ CountSent(m).planned = m.planned + 1
           /\ CountSent(m).started = m.started + 1
           /\ CountSent(m).completed = m.completed
           /\ CountSent(m).canceled = m.canceled
           /\ CountSent(m).iterations = m.iterations
           /\ CountSent(m).iterCompleted = m.iterCompleted
           /\ CountSent(m).iterFailed = m.iterFailed
           /\ CountStep(m) \in Counters
           /\ CountStep(m).planned = m.planned + 1
           /\ CountStep(m).started = m.started + 1
           /\ CountStep(m).completed = m.completed + 1
           /\ CountStep(m).canceled = m.canceled
           /\ CountStep(m).iterations = m.iterations
           /\ CountStep(m).iterCompleted = m.iterCompleted
           /\ CountStep(m).iterFailed = m.iterFailed
  <1>1. /\ m.planned + 1 \in Nat /\ m.started + 1 \in Nat /\ m.completed + 1 \in Nat
    BY DEF Counters
  <1> DEFINE a == [m EXCEPT !.planned = m.planned + 1]
             b == [a EXCEPT !.started = m.started + 1]
  <1>2. a \in Counters
    BY <1>1, SetCounter
  <1>3. b \in Counters
    <2> HIDE DEF a
    <2> QED BY <1>1, <1>2, SetCounter
  <1>4. CountSent(m) \in Counters
    <2>1. CountSent(m) = b
      BY DEF CountSent, Counters
    <2> QED BY <1>3, <2>1
  <1>5. CountStep(m) \in Counters
    <2>1. CountStep(m) = [b EXCEPT !.completed = m.completed + 1]
      BY DEF CountStep, Counters
    <2> HIDE DEF b
    <2> QED BY <1>1, <1>3, <2>1, SetCounter
  <1>6. QED
    BY <1>4, <1>5 DEF CountSent, CountStep, Counters

\* The counters of an iteration that ended.
LEMMA Ending ==
    ASSUME NEW m \in Counters, NEW ok \in BOOLEAN
    PROVE  /\ EndIteration(m, ok) \in Counters
           /\ EndIteration(m, ok).planned = m.planned
           /\ EndIteration(m, ok).started = m.started
           /\ EndIteration(m, ok).completed = m.completed
           /\ EndIteration(m, ok).canceled = m.canceled
           /\ EndIteration(m, ok).iterations = m.iterations
           /\ EndIteration(m, ok).iterCompleted + EndIteration(m, ok).iterFailed
                  = m.iterCompleted + m.iterFailed + 1
  <1>1. m.iterCompleted + 1 \in Nat /\ m.iterFailed + 1 \in Nat
    BY DEF Counters
  <1>2. EndIteration(m, ok) \in Counters
    BY <1>1, SetCounter DEF EndIteration
  <1>3. QED
    BY <1>2 DEF EndIteration, Counters

-----------------------------------------------------------------------------
(* A user's step changes nothing but its own state and the in-flight count. *)

\* The state of user u is as before.
SameUser(u) ==
    /\ vpc'[u] = vpc[u] /\ step'[u] = step[u] /\ success'[u] = success[u]
    /\ metrics'[u] = metrics[u]
    /\ afterStop'[u] = afterStop[u] /\ afterCancel'[u] = afterCancel[u]

Shared == <<scenario, thinks, ctxDone, workersCanceled, stopNewRequests, lifecycle, pc,
            hardCanceled, result>>

\* A step of user v leaves the plan, the contexts, Run and the other users alone.
LEMMA UserStepIsLocal ==
    ASSUME Types, NEW v \in VUs, UserStep(v) \/ Answer(v)
    PROVE  Types' /\ UNCHANGED Shared /\ \A u \in VUs \ {v} : SameUser(u)
  <1> USE DEF Types, Goto, planVars, ctxVars, runVars, Shared, UserPcs
  <1>1. UNCHANGED Shared
    BY DEF UserStep, Answer, LeaveLoop, BeginRequest, BeginIteration, Send, Think,
         ThinkTimerFires, CheckStep, IterationCanceled, StepThinkTimerFires, FinishRequest,
         FinishStep
  <1>2. CASE LeaveLoop(v) \/ BeginRequest(v) \/ Think(v) \/ ThinkTimerFires(v) \/ CheckStep(v)
    BY <1>1, <1>2 DEF LeaveLoop, BeginRequest, Think, ThinkTimerFires, CheckStep, SameUser
  <1>3. CASE BeginIteration(v)
    <2>1. metrics' \in [VUs -> Counters]
      BY <1>3, CountingOne DEF BeginIteration
    <2>2. QED
      BY <1>1, <1>3, <2>1 DEF BeginIteration, SameUser
  <1>4. CASE Send(v)
    <2>1. metrics' \in [VUs -> Counters] /\ \A u \in VUs \ {v} : metrics'[u] = metrics[u]
      <3>1. CASE scenario = <<>>
        <4>1. metrics' = [metrics EXCEPT ![v] = CountSent(@)]
          BY <1>4, <3>1 DEF Send
        <4>2. CountSent(metrics[v]) \in Counters
          BY CountingMore
        <4>3. QED
          BY <4>1, <4>2
      <3>2. CASE scenario # <<>>
        BY <1>4, <3>2 DEF Send
      <3>3. QED
        BY <3>1, <3>2
    <2>2. /\ afterStop' \in [VUs -> Nat] /\ afterCancel' \in [VUs -> Nat]
      BY <1>4 DEF Send
    <2>3. QED
      BY <1>1, <1>4, <2>1, <2>2 DEF Send, SameUser
  <1>5. CASE IterationCanceled(v)
    <2>1. metrics' \in [VUs -> Counters]
      BY <1>5, Ending DEF IterationCanceled
    <2>2. QED
      BY <1>1, <1>5, <2>1 DEF IterationCanceled, SameUser
  <1>6. CASE StepThinkTimerFires(v)
    BY <1>1, <1>6 DEF StepThinkTimerFires, SameUser
  <1>7. ASSUME NEW o \in Outcomes, FinishRequest(v, o)
        PROVE  Types' /\ \A u \in VUs \ {v} : SameUser(u)
    <2>1. metrics' \in [VUs -> Counters]
      BY <1>7, CountingOne DEF FinishRequest
    <2>2. QED
      BY <1>1, <1>7, <2>1 DEF FinishRequest, SameUser
  <1>8. ASSUME NEW o \in Outcomes, FinishStep(v, o)
        PROVE  Types' /\ \A u \in VUs \ {v} : SameUser(u)
    <2>1. success' \in [VUs -> BOOLEAN] /\ \A u \in VUs \ {v} : success'[u] = success[u]
      BY <1>8 DEF FinishStep
    <2>2. metrics' \in [VUs -> Counters] /\ \A u \in VUs \ {v} : metrics'[u] = metrics[u]
      BY <1>8, <2>1, CountingMore, Ending DEF FinishStep
    <2>3. step' \in [VUs -> Nat] /\ \A u \in VUs \ {v} : step'[u] = step[u]
      BY <1>8 DEF FinishStep
    <2>4. vpc' \in [VUs -> UserPcs] /\ \A u \in VUs \ {v} : vpc'[u] = vpc[u]
      BY <1>8 DEF FinishStep
    <2>5. UNCHANGED <<afterStop, afterCancel>>
      BY <1>8 DEF FinishStep
    <2>6. QED
      BY <1>1, <2>1, <2>2, <2>3, <2>4, <2>5 DEF SameUser
  <1>9. QED
    BY <1>1, <1>2, <1>3, <1>4, <1>5, <1>6, <1>7, <1>8 DEF UserStep, Answer

\* The three ways a step's answer leaves its user: the iteration over, a think
\* time before the next step, or the next step at once.
LEMMA StepAnswered ==
    ASSUME Types, NEW v \in VUs, NEW o \in Outcomes, FinishStep(v, o)
    PROVE  \/ /\ vpc'[v] \in {"done", "check"} /\ success'[v] \in BOOLEAN
              /\ metrics'[v] = EndIteration(CountStep(metrics[v]), success'[v])
           \/ /\ step[v] # Len(scenario) /\ metrics'[v] = CountStep(metrics[v])
              /\ \/ vpc'[v] = "stepThink" /\ step'[v] = step[v]
                 \/ vpc'[v] = "step" /\ step'[v] = step[v] + 1
  <1> DEFINE ok     == o = "success"
             policy == scenario[step[v]].onFailure
             ends   == (~ok /\ policy # "continue") \/ step[v] = Len(scenario)
             pauses == ok /\ scenario[step[v]].think
  <1>1. /\ success' = [success EXCEPT ![v] = @ /\ ok]
        /\ metrics' = [metrics EXCEPT ![v] =
               IF ends THEN EndIteration(CountStep(@), success'[v]) ELSE CountStep(@)]
        /\ step' = [step EXCEPT ![v] = IF ends \/ pauses THEN @ ELSE @ + 1]
        /\ vpc' = [vpc EXCEPT ![v] = CASE ~ok /\ policy = "abort_vu" -> "done"
                        [] ends /\ (ok \/ policy # "abort_vu") -> "check"
                        [] ~ends -> IF pauses THEN "stepThink" ELSE "step"]
    BY DEF FinishStep, Goto
  <1>2. success'[v] \in BOOLEAN
    BY <1>1 DEF Types
  <1>3. CASE ends
    <2>1. vpc'[v] \in {"done", "check"}
      BY <1>1, <1>3 DEF Types
    <2>2. metrics'[v] = EndIteration(CountStep(metrics[v]), success'[v])
      BY <1>1, <1>3 DEF Types
    <2>3. QED
      BY <1>2, <2>1, <2>2
  <1>4. CASE ~ends
    <2>1. step[v] # Len(scenario) /\ ~(~ok /\ policy = "abort_vu")
      BY <1>4
    <2>2. metrics'[v] = CountStep(metrics[v])
      BY <1>1, <1>4 DEF Types
    <2>3. vpc'[v] = IF pauses THEN "stepThink" ELSE "step"
      BY <1>1, <1>4, <2>1 DEF Types
    <2>4. step'[v] = IF pauses THEN step[v] ELSE step[v] + 1
      BY <1>1, <1>4 DEF Types
    <2>5. QED
      BY <2>1, <2>2, <2>3, <2>4
  <1>5. QED
    BY <1>3, <1>4

\* Every step is one of Run's, one of its caller's or one of a user's.
LEMMA NextCases ==
    ASSUME [Next]_vars
    PROVE  \/ CancelContext \/ Run \/ UNCHANGED vars
           \/ \E v \in VUs : UserStep(v) \/ Answer(v)
  BY DEF Next, Terminated

\* Run and its caller leave the users alone, except that Start launches them.
LEMMA RunLeavesUsers ==
    ASSUME CancelContext \/ Run \/ UNCHANGED vars
    PROVE  /\ UNCHANGED <<scenario, thinks, step, success, metrics, inFlight, afterStop, afterCancel>>
           /\ UNCHANGED vpc \/ (Start /\ vpc' = [v \in VUs |-> "top"])
  BY DEF Run, CancelContext, Start, DurationElapses, CanceledWhileRunning, CloseStop, StopRunning,
       DrainedInTime, GraceExpires, CanceledWhileDraining, AwaitUsers, Complete, Merge, planVars,
       userVars, vars

\* Every step keeps the types.
LEMMA TypesStep ==
    ASSUME Types, [Next]_vars
    PROVE  Types'
  <1>1. CASE CancelContext \/ Run \/ UNCHANGED vars
    <2>1. /\ ctxDone' \in BOOLEAN /\ workersCanceled' \in BOOLEAN /\ stopNewRequests' \in BOOLEAN
          /\ pc' \in RunPcs /\ hardCanceled' \in BOOLEAN
      BY <1>1 DEF Types, RunPcs, Run, CancelContext, Start, DurationElapses, CanceledWhileRunning,
           CloseStop, StopRunning, DrainedInTime, GraceExpires, CanceledWhileDraining, AwaitUsers,
           Complete, Merge, vars, ctxVars, runVars
    <2>2. vpc' \in [VUs -> UserPcs]
      BY <1>1, RunLeavesUsers DEF Types, UserPcs
    <2>3. QED
      BY <1>1, <2>1, <2>2, RunLeavesUsers DEF Types
  <1>2. QED
    BY <1>1, NextCases, UserStepIsLocal


-----------------------------------------------------------------------------
(* Each part of the invariant is kept.                                      *)

\* Run goes past its waits only when every user is done, and done users stay done.
LEMMA RunWaitsStep ==
    ASSUME Types, RunWaits, [Next]_vars
    PROVE  RunWaits'
  <1>1. CASE CancelContext \/ Run \/ UNCHANGED vars
    <2>1. pc' \in {"start", "complete", "merge", "returned"} => UsersDone /\ ~Start
      BY <1>1 DEF RunWaits, Run, CancelContext, Start, DurationElapses, CanceledWhileRunning,
           CloseStop, StopRunning, DrainedInTime, GraceExpires, CanceledWhileDraining, AwaitUsers,
           Complete, Merge, vars, runVars
    <2>2. QED
      BY <1>1, <2>1, RunLeavesUsers DEF RunWaits, UsersDone
  <1>2. ASSUME NEW v \in VUs, UserStep(v) \/ Answer(v)
        PROVE  RunWaits'
    <2>1. vpc[v] # "done"
      BY <1>2 DEF UserStep, Answer, LeaveLoop, BeginRequest, BeginIteration, Send, Think,
           ThinkTimerFires, CheckStep, IterationCanceled, StepThinkTimerFires, FinishRequest,
           FinishStep
    <2>2. pc' = pc
      BY <1>2, UserStepIsLocal DEF Shared
    <2>3. QED
      BY <2>1, <2>2 DEF RunWaits, UsersDone
  <1>3. QED
    BY <1>1, <1>2, NextCases

\* inFlightCount stays the number of single requests under way.
LEMMA InFlightStep ==
    ASSUME Types, InFlightIsSending, RunWaits, [Next]_vars
    PROVE  InFlightIsSending'
  <1>0. IsFiniteSet(Sending) /\ Cardinality(Sending) \in Nat
    BY SendingFacts
  <1>1. CASE CancelContext \/ Run \/ UNCHANGED vars
    <2>1. Sending' = Sending
      <3>1. CASE UNCHANGED vpc
        BY <3>1 DEF Sending
      <3>2. CASE Start /\ vpc' = [v \in VUs |-> "top"]
        BY <3>2 DEF Start, RunWaits, UsersDone, Sending
      <3>3. QED
        BY <1>1, <3>1, <3>2, RunLeavesUsers
    <2>2. QED
      BY <1>1, <2>1, RunLeavesUsers DEF InFlightIsSending
  <1>2. ASSUME NEW v \in VUs, UserStep(v) \/ Answer(v)
        PROVE  InFlightIsSending'
    <2>0. UNCHANGED scenario /\ \A u \in VUs \ {v} : vpc'[u] = vpc[u]
      BY <1>2, UserStepIsLocal DEF Shared, SameUser
    <2>1. CASE Send(v)
      <3>1. Sending' = Sending \cup {v} /\ v \notin Sending
        BY <2>0, <2>1 DEF Send, Goto, Types, Sending
      <3>2. Cardinality(Sending') = Cardinality(Sending) + 1
        BY <1>0, <3>1, FS_AddElement
      <3>3. QED
        BY <2>0, <2>1, <3>2 DEF Send, InFlightIsSending
    <2>2. ASSUME NEW o \in Outcomes, FinishRequest(v, o) PROVE InFlightIsSending'
      <3>1. vpc[v] = "exec" /\ vpc'[v] = "check"
        BY <2>2 DEF FinishRequest, Goto, Types
      <3>2. Sending' = Sending \ {v} /\ v \in Sending
        BY <2>0, <3>1 DEF Sending
      <3>3. Cardinality(Sending') = Cardinality(Sending) - 1
        BY <1>0, <3>2, FS_RemoveElement
      <3>4. QED
        BY <2>0, <2>2, <3>3 DEF FinishRequest, InFlightIsSending
    <2>3. ASSUME NEW o \in Outcomes, FinishStep(v, o) PROVE InFlightIsSending'
      BY <2>0, <2>3 DEF FinishStep, InFlightIsSending
    <2>4. CASE UserStep(v) /\ ~Send(v)
      <3>1. vpc[v] # "exec" /\ vpc'[v] # "exec" /\ UNCHANGED inFlight
        BY <2>4 DEF UserStep, LeaveLoop, BeginRequest, BeginIteration, Think, ThinkTimerFires,
             CheckStep, IterationCanceled, StepThinkTimerFires, Goto, Types
      <3>2. Sending' = Sending
        BY <2>0, <3>1 DEF Sending
      <3>3. QED
        BY <2>0, <3>1, <3>2 DEF InFlightIsSending
    <2>5. QED
      BY <1>2, <2>1, <2>2, <2>3, <2>4 DEF Answer
  <1>3. QED
    BY <1>1, <1>2, NextCases

\* The users are canceled only after the stop, and what Run merged is what the
\* users' counters still are.
LEMMA CancelAfterStopStep ==
    ASSUME Types, RunWaits, CancelAfterStop, [Next]_vars
    PROVE  CancelAfterStop'
  <1>1. CASE CancelContext \/ Run \/ UNCHANGED vars
    <2>1. workersCanceled' => pc' \notin {"start", "wait", "close", "stop"}
      BY <1>1 DEF CancelAfterStop, Run, CancelContext, Start, DurationElapses,
           CanceledWhileRunning, CloseStop, StopRunning, DrainedInTime, GraceExpires,
           CanceledWhileDraining, AwaitUsers, Complete, Merge, vars, ctxVars, runVars
    <2>2. \A f \in DOMAIN NoMetrics : Total(f)' = Total(f)
      BY <1>1, RunLeavesUsers DEF Total
    <2>3. pc' = "returned" => result' = [f \in DOMAIN NoMetrics |-> Total(f)]
      BY <1>1 DEF CancelAfterStop, Run, CancelContext, Start, DurationElapses,
           CanceledWhileRunning, CloseStop, StopRunning, DrainedInTime, GraceExpires,
           CanceledWhileDraining, AwaitUsers, Complete, Merge, vars, runVars
    <2>4. QED
      BY <2>1, <2>2, <2>3 DEF CancelAfterStop
  <1>2. ASSUME NEW v \in VUs, UserStep(v) \/ Answer(v)
        PROVE  CancelAfterStop'
    <2>1. vpc[v] # "done"
      BY <1>2 DEF UserStep, Answer, LeaveLoop, BeginRequest, BeginIteration, Send, Think,
           ThinkTimerFires, CheckStep, IterationCanceled, StepThinkTimerFires, FinishRequest,
           FinishStep
    <2>2. pc # "returned"
      BY <2>1 DEF RunWaits, UsersDone
    <2>3. QED
      BY <1>2, <2>2, UserStepIsLocal DEF CancelAfterStop, Shared
  <1>3. QED
    BY <1>1, <1>2, NextCases


\* The stop and the cancellations are never taken back.
LEMMA StopsForGood ==
    ASSUME Types, CancelAfterStop, [Next]_vars
    PROVE  (stopNewRequests => stopNewRequests') /\ (WorkerCtxDone => WorkerCtxDone')
  <1>1. CASE CancelContext \/ Run \/ UNCHANGED vars
    BY <1>1 DEF Types, CancelAfterStop, WorkerCtxDone, Run, CancelContext, Start, DurationElapses,
         CanceledWhileRunning, CloseStop, StopRunning, DrainedInTime, GraceExpires,
         CanceledWhileDraining, AwaitUsers, Complete, Merge, vars, ctxVars
  <1>2. QED
    BY <1>1, NextCases, UserStepIsLocal DEF Shared, WorkerCtxDone

\* Only a user that saw the context alive goes on to send.
LEMMA CancelStep ==
    ASSUME Types, CancelAfterStop, CancelInv, [Next]_vars
    PROVE  CancelInv'
  <1>0. WorkerCtxDone => WorkerCtxDone'
    BY StopsForGood
  <1>1. CASE CancelContext \/ Run \/ UNCHANGED vars
    <2>1. \A v \in VUs : vpc'[v] = "send" => vpc[v] = "send"
      BY <1>1, RunLeavesUsers
    <2>2. QED
      BY <1>0, <1>1, <2>1, RunLeavesUsers DEF CancelInv
  <1>2. ASSUME NEW v \in VUs, UserStep(v) \/ Answer(v)
        PROVE  CancelInv'
    <2>0. /\ WorkerCtxDone' = WorkerCtxDone
          /\ \A u \in VUs \ {v} : vpc'[u] = vpc[u] /\ afterCancel'[u] = afterCancel[u]
          /\ afterCancel[v] \in Nat
      BY <1>2, UserStepIsLocal DEF Shared, SameUser, WorkerCtxDone, Types
    <2>1. /\ afterCancel'[v] <= 1
          /\ ~WorkerCtxDone \/ vpc'[v] = "send" => afterCancel'[v] = 0
      <3>1. CASE Send(v)
        BY <2>0, <3>1 DEF Send, Goto, Types, CancelInv
      <3>2. CASE UserStep(v) /\ ~Send(v)
        <4>1. UNCHANGED afterCancel /\ (vpc'[v] = "send" => ~WorkerCtxDone)
          BY <3>2 DEF UserStep, LeaveLoop, BeginRequest, BeginIteration, Think, ThinkTimerFires,
               CheckStep, IterationCanceled, StepThinkTimerFires, Goto, Types, MustStop
        <4>2. QED
          BY <4>1 DEF CancelInv
      <3>3. ASSUME NEW o \in Outcomes, FinishRequest(v, o) \/ FinishStep(v, o)
            PROVE  UNCHANGED afterCancel /\ vpc'[v] # "send"
        <4>1. CASE FinishRequest(v, o)
          BY <4>1 DEF FinishRequest, Goto, Types
        <4>2. CASE FinishStep(v, o)
          BY <4>2, StepAnswered DEF FinishStep
        <4>3. QED
          BY <3>3, <4>1, <4>2
      <3>4. QED
        BY <1>2, <3>1, <3>2, <3>3 DEF Answer, CancelInv
    <2>2. QED
      BY <2>0, <2>1 DEF CancelInv
  <1>3. QED
    BY <1>1, <1>2, NextCases

\* A user begins nothing after the stop, and its iteration has so many steps.
LEMMA StopStep ==
    ASSUME Types, CancelAfterStop, StopInv, \A v \in VUs : UserBalanced(v), [Next]_vars
    PROVE  StopInv'
  <1>0. stopNewRequests => stopNewRequests'
    BY StopsForGood
  <1>1. CASE CancelContext \/ Run \/ UNCHANGED vars
    <2>1. UNCHANGED <<scenario, afterStop, step>>
      BY <1>1, RunLeavesUsers
    <2>2. \A v \in VUs : vpc'[v] \in {"step", "send", "exec", "stepThink"} => vpc'[v] = vpc[v]
      BY <1>1, RunLeavesUsers
    <2>3. QED
      BY <1>0, <2>1, <2>2 DEF StopInv, InIteration
  <1>2. ASSUME NEW v \in VUs, UserStep(v) \/ Answer(v)
        PROVE  StopInv'
    <2>0. /\ UNCHANGED <<scenario, stopNewRequests>>
          /\ \A u \in VUs \ {v} :
                 vpc'[u] = vpc[u] /\ afterStop'[u] = afterStop[u] /\ step'[u] = step[u]
          /\ afterStop[v] \in Nat /\ step[v] \in Nat /\ Len(scenario) \in Nat
          /\ scenario # <<>> => Len(scenario) >= 1
      BY <1>2, UserStepIsLocal, ScenarioFacts DEF Shared, SameUser, Types
    <2>1. /\ ~stopNewRequests => afterStop'[v] = 0
          /\ scenario = <<>> => afterStop'[v] <= 1 /\ (vpc'[v] = "send" => afterStop'[v] = 0)
          /\ scenario # <<>> =>
               /\ afterStop'[v] <= Len(scenario)
               /\ vpc'[v] \in {"step", "send", "exec", "stepThink"} =>
                      step'[v] \in 1 .. Len(scenario)
               /\ vpc'[v] \in {"step", "send"} => afterStop'[v] < step'[v]
               /\ vpc'[v] \in {"exec", "stepThink"} => afterStop'[v] <= step'[v]
               /\ vpc'[v] = "stepThink" => step'[v] < Len(scenario)
      <3> USE DEF StopInv, InIteration, Goto, Types
      <3>1. CASE Send(v)
        <4>1. /\ vpc[v] = "send" /\ vpc'[v] = "exec" /\ step'[v] = step[v]
              /\ afterStop'[v] = afterStop[v] + (IF stopNewRequests THEN 1 ELSE 0)
          BY <3>1 DEF Send
        <4>2. QED
          BY <2>0, <4>1
      <3>2. CASE LeaveLoop(v) \/ Think(v) \/ ThinkTimerFires(v) \/ IterationCanceled(v)
        <4>1. UNCHANGED afterStop /\ vpc'[v] \in {"done", "top", "check", "think"}
          BY <3>2 DEF LeaveLoop, Think, ThinkTimerFires, IterationCanceled
        <4>2. QED
          BY <2>0, <4>1
      <3>3. CASE BeginRequest(v)
        BY <2>0, <3>3 DEF BeginRequest, MustStop
      <3>4. CASE BeginIteration(v)
        <4>1. /\ vpc'[v] = "step" /\ step'[v] = 1 /\ UNCHANGED afterStop /\ ~stopNewRequests
              /\ scenario # <<>>
          BY <3>4 DEF BeginIteration, MustStop
        <4>2. QED
          BY <2>0, <4>1
      <3>5. CASE CheckStep(v)
        <4>1. vpc[v] = "step" /\ vpc'[v] = "send" /\ UNCHANGED <<afterStop, step>>
          BY <3>5 DEF CheckStep
        <4>2. scenario # <<>>
          BY <4>1 DEF UserBalanced
        <4>3. QED
          BY <2>0, <4>1, <4>2
      <3>6. CASE StepThinkTimerFires(v)
        <4>1. /\ vpc[v] = "stepThink" /\ vpc'[v] = "step" /\ step'[v] = step[v] + 1
              /\ UNCHANGED afterStop
          BY <3>6 DEF StepThinkTimerFires
        <4>2. QED
          BY <2>0, <4>1
      <3>7. ASSUME NEW o \in Outcomes, FinishRequest(v, o) PROVE vpc'[v] = "check" /\ UNCHANGED afterStop
        BY <3>7, SMTT(30) DEF FinishRequest
      <3>8. ASSUME NEW o \in Outcomes, FinishStep(v, o)
            PROVE  /\ vpc[v] = "exec" /\ UNCHANGED afterStop /\ scenario # <<>>
                   /\ \/ vpc'[v] \in {"done", "check"}
                      \/ vpc'[v] = "stepThink" /\ step'[v] = step[v] /\ step[v] # Len(scenario)
                      \/ vpc'[v] = "step" /\ step'[v] = step[v] + 1 /\ step[v] # Len(scenario)
        BY <3>8, StepAnswered DEF FinishStep
      <3>9. QED
        BY <1>2, <2>0, <3>1, <3>2, <3>3, <3>4, <3>5, <3>6, <3>7, <3>8 DEF UserStep, Answer
    <2>2. QED
      BY <2>0, <2>1 DEF StopInv, InIteration
  <1>3. QED
    BY <1>1, <1>2, NextCases


\* Every user's counters balance after each of its steps, whether it answers a
\* single request, ends an iteration well or badly, or is canceled in one.
LEMMA BalancedStep ==
    ASSUME Types, RunWaits, \A v \in VUs : UserBalanced(v), [Next]_vars
    PROVE  \A v \in VUs : UserBalanced(v)'
  <1>1. CASE CancelContext \/ Run \/ UNCHANGED vars
    <2>1. UNCHANGED <<scenario, metrics>>
      BY <1>1, RunLeavesUsers
    <2>2. \A v \in VUs : /\ vpc'[v] \in {"step", "send", "exec", "stepThink"} => vpc'[v] = vpc[v]
                         /\ vpc[v] \in {"step", "send", "exec", "stepThink"} => vpc'[v] = vpc[v]
      BY <1>1, RunLeavesUsers DEF Start, RunWaits, UsersDone
    <2>3. QED
      BY <2>1, <2>2 DEF UserBalanced, InIteration
  <1>2. ASSUME NEW v \in VUs, UserStep(v) \/ Answer(v)
        PROVE  \A u \in VUs : UserBalanced(u)'
    <2>0. UNCHANGED scenario /\ \A u \in VUs \ {v} : vpc'[u] = vpc[u] /\ metrics'[u] = metrics[u]
      BY <1>2, UserStepIsLocal DEF Shared, SameUser
    <2>1. \A u \in VUs \ {v} : UserBalanced(u)'
      BY <2>0 DEF UserBalanced, InIteration
    <2>m. /\ metrics[v] \in Counters
          /\ metrics[v].planned \in Nat /\ metrics[v].started \in Nat
          /\ metrics[v].completed \in Nat /\ metrics[v].canceled \in Nat
          /\ metrics[v].iterations \in Nat /\ metrics[v].iterCompleted \in Nat
          /\ metrics[v].iterFailed \in Nat
      BY DEF Types, Counters
    <2>n. /\ metrics'[v].iterCompleted \in Nat /\ metrics'[v].iterFailed \in Nat
      BY <1>2, UserStepIsLocal DEF Types, Counters
    <2>b. /\ metrics[v].planned = metrics[v].started
          /\ metrics[v].started = metrics[v].completed + metrics[v].canceled
                  + (IF scenario = <<>> /\ vpc[v] = "exec" THEN 1 ELSE 0)
          /\ metrics[v].iterations = metrics[v].iterCompleted + metrics[v].iterFailed
                  + (IF scenario # <<>> /\ vpc[v] \in {"step", "send", "exec", "stepThink"}
                     THEN 1 ELSE 0)
          /\ scenario = <<>> => metrics[v].iterations = 0 /\ vpc[v] \notin {"step", "stepThink"}
      BY DEF UserBalanced, InIteration
    <2>2. UserBalanced(v)'
      <3> SUFFICES
            /\ metrics'[v].planned = metrics'[v].started
            /\ metrics'[v].started = metrics'[v].completed + metrics'[v].canceled
                  + (IF scenario = <<>> /\ vpc'[v] = "exec" THEN 1 ELSE 0)
            /\ metrics'[v].iterations = metrics'[v].iterCompleted + metrics'[v].iterFailed
                  + (IF scenario # <<>> /\ vpc'[v] \in {"step", "send", "exec", "stepThink"}
                     THEN 1 ELSE 0)
            /\ scenario = <<>> =>
                  metrics'[v].iterations = 0 /\ vpc'[v] \notin {"step", "stepThink"}
        BY <2>0 DEF UserBalanced, InIteration
      <3>1. CASE LeaveLoop(v) \/ Think(v) \/ ThinkTimerFires(v) \/ BeginRequest(v)
        <4>1. /\ metrics'[v] = metrics[v]
              /\ vpc[v] \in {"top", "check", "think"}
              /\ \/ vpc'[v] \in {"done", "top", "think"}
                 \/ vpc'[v] = "send" /\ scenario = <<>>
          BY <3>1 DEF LeaveLoop, Think, ThinkTimerFires, BeginRequest, Goto, Types
        <4>2. QED
          BY <2>m, <2>n, <2>b, <4>1
      <3>2. CASE CheckStep(v) \/ StepThinkTimerFires(v)
        <4>1. /\ metrics'[v] = metrics[v]
              /\ vpc[v] \in {"step", "stepThink"} /\ vpc'[v] \in {"send", "step"}
          BY <3>2 DEF CheckStep, StepThinkTimerFires, Goto, Types
        <4>2. QED
          BY <2>m, <2>n, <2>b, <4>1
      <3>3. CASE BeginIteration(v)
        <4>1. /\ metrics'[v] = CountIteration(metrics[v]) /\ scenario # <<>>
              /\ vpc[v] = "top" /\ vpc'[v] = "step"
          BY <3>3 DEF BeginIteration, Goto, Types
        <4>2. /\ metrics'[v].planned = metrics[v].planned
              /\ metrics'[v].started = metrics[v].started
              /\ metrics'[v].completed = metrics[v].completed
              /\ metrics'[v].canceled = metrics[v].canceled
              /\ metrics'[v].iterations = metrics[v].iterations + 1
              /\ metrics'[v].iterCompleted = metrics[v].iterCompleted
              /\ metrics'[v].iterFailed = metrics[v].iterFailed
          BY <2>m, <4>1, CountingOne, SMTT(30)
        <4>3. /\ metrics[v].started = metrics[v].completed + metrics[v].canceled
              /\ metrics[v].iterations = metrics[v].iterCompleted + metrics[v].iterFailed
          BY <2>m, <2>b, <4>1
        <4>4. metrics'[v].iterations = metrics'[v].iterCompleted + metrics'[v].iterFailed + 1
          BY <2>m, <4>2, <4>3
        <4>5. metrics'[v].started = metrics'[v].completed + metrics'[v].canceled + 0
          BY <2>m, <4>2, <4>3
        <4>6. QED
          BY <2>b, <4>1, <4>2, <4>4, <4>5
      <3>4. CASE Send(v)
        <4>1. vpc[v] = "send" /\ vpc'[v] = "exec"
          BY <3>4 DEF Send, Goto, Types
        <4>2. CASE scenario = <<>>
          <5>1. metrics'[v] = CountSent(metrics[v])
            BY <3>4, <4>2 DEF Send, Types
          <5>2. /\ metrics'[v].planned = metrics[v].planned + 1
                /\ metrics'[v].started = metrics[v].started + 1
                /\ metrics'[v].completed = metrics[v].completed
                /\ metrics'[v].canceled = metrics[v].canceled
                /\ metrics'[v].iterations = metrics[v].iterations
                /\ metrics'[v].iterCompleted = metrics[v].iterCompleted
                /\ metrics'[v].iterFailed = metrics[v].iterFailed
            BY <2>m, <5>1, CountingMore
          <5>3. QED
            BY <2>m, <2>b, <4>1, <4>2, <5>2
        <4>3. CASE scenario # <<>>
          <5>1. metrics'[v] = metrics[v]
            BY <3>4, <4>3 DEF Send
          <5>2. QED
            BY <2>m, <2>n, <2>b, <4>1, <4>3, <5>1
        <4>4. QED
          BY <4>2, <4>3
      <3>5. CASE IterationCanceled(v)
        <4>1. /\ metrics'[v] = EndIteration(metrics[v], FALSE)
              /\ vpc[v] \in {"step", "stepThink"} /\ vpc'[v] = "check"
          BY <3>5 DEF IterationCanceled, Goto, Types
        <4>2. /\ metrics'[v].planned = metrics[v].planned
              /\ metrics'[v].started = metrics[v].started
              /\ metrics'[v].completed = metrics[v].completed
              /\ metrics'[v].canceled = metrics[v].canceled
              /\ metrics'[v].iterations = metrics[v].iterations
              /\ metrics'[v].iterCompleted + metrics'[v].iterFailed
                     = metrics[v].iterCompleted + metrics[v].iterFailed + 1
          <5> DEFINE e == EndIteration(metrics[v], FALSE)
          <5>1. /\ e.planned = metrics[v].planned /\ e.started = metrics[v].started
                /\ e.completed = metrics[v].completed /\ e.canceled = metrics[v].canceled
                /\ e.iterations = metrics[v].iterations
                /\ e.iterCompleted + e.iterFailed = metrics[v].iterCompleted + metrics[v].iterFailed + 1
            BY <2>m, Ending
          <5>2. metrics'[v] = e
            BY <4>1
          <5> HIDE DEF e
          <5>3. QED
            BY <5>1, <5>2
        <4>3. scenario # <<>>
          BY <2>b, <4>1
        <4>4. /\ metrics[v].started = metrics[v].completed + metrics[v].canceled
              /\ metrics[v].iterations = metrics[v].iterCompleted + metrics[v].iterFailed + 1
          BY <2>m, <2>b, <4>1, <4>3
        <4>5. metrics'[v].iterations = metrics'[v].iterCompleted + metrics'[v].iterFailed + 0
          BY <2>m, <2>n, <4>2, <4>4
        <4>6. metrics'[v].started = metrics'[v].completed + metrics'[v].canceled + 0
          BY <2>m, <4>2, <4>4
        <4>7. QED
          BY <2>b, <4>1, <4>2, <4>3, <4>5, <4>6
      <3>6. ASSUME NEW o \in Outcomes, FinishRequest(v, o)
            PROVE  /\ metrics'[v].planned = metrics'[v].started
                   /\ metrics'[v].started = metrics'[v].completed + metrics'[v].canceled
                         + (IF scenario = <<>> /\ vpc'[v] = "exec" THEN 1 ELSE 0)
                   /\ metrics'[v].iterations = metrics'[v].iterCompleted + metrics'[v].iterFailed
                         + (IF scenario # <<>> /\ vpc'[v] \in {"step", "send", "exec", "stepThink"}
                            THEN 1 ELSE 0)
                   /\ scenario = <<>> =>
                         metrics'[v].iterations = 0 /\ vpc'[v] \notin {"step", "stepThink"}
        <4>1. /\ metrics'[v] = CountReturned(metrics[v]) /\ scenario = <<>>
              /\ vpc[v] = "exec" /\ vpc'[v] = "check"
          BY <3>6 DEF FinishRequest, Goto, Types
        <4>2. /\ metrics'[v].planned = metrics[v].planned
              /\ metrics'[v].started = metrics[v].started
              /\ metrics'[v].completed = metrics[v].completed + 1
              /\ metrics'[v].canceled = metrics[v].canceled
              /\ metrics'[v].iterations = metrics[v].iterations
              /\ metrics'[v].iterCompleted = metrics[v].iterCompleted
              /\ metrics'[v].iterFailed = metrics[v].iterFailed
          BY <2>m, <4>1, CountingOne, SMTT(30)
        <4>3. QED
          BY <2>m, <2>b, <4>1, <4>2
      <3>7. ASSUME NEW o \in Outcomes, FinishStep(v, o)
            PROVE  /\ metrics'[v].planned = metrics'[v].started
                   /\ metrics'[v].started = metrics'[v].completed + metrics'[v].canceled
                         + (IF scenario = <<>> /\ vpc'[v] = "exec" THEN 1 ELSE 0)
                   /\ metrics'[v].iterations = metrics'[v].iterCompleted + metrics'[v].iterFailed
                         + (IF scenario # <<>> /\ vpc'[v] \in {"step", "send", "exec", "stepThink"}
                            THEN 1 ELSE 0)
                   /\ scenario = <<>> =>
                         metrics'[v].iterations = 0 /\ vpc'[v] \notin {"step", "stepThink"}
        <4> DEFINE m == CountStep(metrics[v])
        <4>1. vpc[v] = "exec" /\ scenario # <<>>
          BY <3>7 DEF FinishStep
        <4>2. /\ m \in Counters
              /\ m.planned = metrics[v].planned + 1 /\ m.started = metrics[v].started + 1
              /\ m.completed = metrics[v].completed + 1 /\ m.canceled = metrics[v].canceled
              /\ m.iterations = metrics[v].iterations
              /\ m.iterCompleted = metrics[v].iterCompleted /\ m.iterFailed = metrics[v].iterFailed
          BY <2>m, CountingMore
        <4> HIDE DEF m
        <4>3. CASE /\ vpc'[v] \in {"done", "check"} /\ success'[v] \in BOOLEAN
                   /\ metrics'[v] = EndIteration(m, success'[v])
          <5>1. /\ metrics'[v].planned = m.planned
                /\ metrics'[v].started = m.started
                /\ metrics'[v].completed = m.completed
                /\ metrics'[v].canceled = m.canceled
                /\ metrics'[v].iterations = m.iterations
                /\ metrics'[v].iterCompleted + metrics'[v].iterFailed
                       = m.iterCompleted + m.iterFailed + 1
            BY <4>2, <4>3, Ending
          <5>2. /\ metrics[v].started = metrics[v].completed + metrics[v].canceled
                /\ metrics[v].iterations = metrics[v].iterCompleted + metrics[v].iterFailed + 1
            BY <2>m, <2>b, <4>1
          <5>3. metrics'[v].iterations = metrics'[v].iterCompleted + metrics'[v].iterFailed + 0
            BY <2>m, <2>n, <4>2, <5>1, <5>2
          <5>4. metrics'[v].started = metrics'[v].completed + metrics'[v].canceled + 0
            BY <2>m, <4>2, <5>1, <5>2
          <5>5. QED
            BY <2>b, <4>1, <4>2, <4>3, <5>1, <5>3, <5>4
        <4>4. CASE metrics'[v] = m /\ vpc'[v] \in {"step", "stepThink"}
          BY <2>m, <2>n, <2>b, <4>1, <4>2, <4>4, SMTT(30)
        <4>5. QED
          BY <3>7, <4>3, <4>4, StepAnswered DEF m
      <3>8. QED
        BY <1>2, <3>1, <3>2, <3>3, <3>4, <3>5, <3>6, <3>7 DEF UserStep, Answer
    <2>3. QED
      BY <2>1, <2>2
  <1>3. QED
    BY <1>1, <1>2, NextCases

-----------------------------------------------------------------------------
(* The theorems.                                                            *)

\* What New and the entry of Run set up satisfies the invariant.
LEMMA ClosedInit == Init => ClosedInv
  <1> SUFFICES ASSUME Init PROVE ClosedInv
    OBVIOUS
  <1>1. NoMetrics \in Counters
    BY DEF NoMetrics, Counters
  <1>2. Types
    BY <1>1 DEF Init, Types, RunPcs, UserPcs
  <1>3. Sending = {}
    BY DEF Init, Sending
  <1>4. InFlightIsSending
    BY <1>3, FS_EmptySet DEF Init, InFlightIsSending
  <1>5. RunWaits /\ CancelAfterStop
    BY DEF Init, RunWaits, CancelAfterStop, UsersDone
  <1>6. CancelInv /\ StopInv
    BY ScenarioFacts DEF Init, CancelInv, StopInv, InIteration
  <1>7. \A v \in VUs : UserBalanced(v)
    BY DEF Init, UserBalanced, InIteration, NoMetrics
  <1>8. QED
    BY <1>2, <1>4, <1>5, <1>6, <1>7 DEF ClosedInv

\* The closed scheduler's invariant is inductive.
THEOREM ClosedInvariant == Spec => []ClosedInv
  <1>1. ClosedInv /\ [Next]_vars => ClosedInv'
    BY TypesStep, InFlightStep, RunWaitsStep, CancelAfterStopStep, CancelStep, StopStep,
       BalancedStep DEF ClosedInv
  <1>2. QED
    BY <1>1, ClosedInit, PTL DEF Spec

\* After the context is canceled no user sends more than one request, not even
\* in the middle of a scenario.
THEOREM CancelIsPrompt == Spec => []CancelStopsUsers
  <1>1. ClosedInv => CancelStopsUsers
    BY DEF ClosedInv, CancelInv, CancelStopsUsers
  <1>2. QED
    BY <1>1, ClosedInvariant, PTL

\* After the stop no user sends more than one single request, or more than the
\* steps of one scenario.
THEOREM StopIsBounded == Spec => []LateRequestsBounded
  <1>1. ClosedInv => LateRequestsBounded
    BY DEF ClosedInv, StopInv, LateRequestsBounded
  <1>2. QED
    BY <1>1, ClosedInvariant, PTL

\* The in-flight count is that of the single requests under way, and when Run
\* returns no user is left and the merged counters are the users' final ones.
THEOREM LeavesNothingBehind == Spec => []NothingLeftBehind
  <1>1. ClosedInv => NothingLeftBehind
    <2> SUFFICES ASSUME ClosedInv PROVE NothingLeftBehind
      OBVIOUS
    <2>1. InFlightCount
      BY DEF ClosedInv, InFlightIsSending, InFlightCount, Sending
    <2>2. pc = "returned" => \A v \in VUs : vpc[v] = "done"
      BY DEF ClosedInv, RunWaits, UsersDone
    <2>3. pc = "returned" => \A f \in DOMAIN NoMetrics : result[f] = Total(f)
      BY DEF ClosedInv, CancelAfterStop
    <2>4. QED
      BY <2>1, <2>2, <2>3 DEF NothingLeftBehind
  <1>2. QED
    BY <1>1, ClosedInvariant, PTL

\* What Run returns reconciles: each user's counters balance once it is done, and
\* so do their sums.
THEOREM Reconciles == Spec => []ReportReconciles
  <1>1. ClosedInv => ReportReconciles
    <2> SUFFICES ASSUME ClosedInv, pc = "returned"
                 PROVE  /\ result.planned = result.started
                        /\ result.started = result.completed + result.canceled
                        /\ result.iterations = result.iterCompleted + result.iterFailed
                        /\ scenario = <<>> => result.iterations = 0
      BY DEF ReportReconciles
    <2> DEFINE Of(f) == [v \in VUs |-> metrics[v][f]]
    <2>1. /\ result.planned = Total("planned") /\ result.started = Total("started")
          /\ result.completed = Total("completed") /\ result.canceled = Total("canceled")
          /\ result.iterations = Total("iterations")
          /\ result.iterCompleted = Total("iterCompleted")
          /\ result.iterFailed = Total("iterFailed")
      BY DEF ClosedInv, CancelAfterStop, NoMetrics
    <2>2. ASSUME NEW v \in VUs
          PROVE  /\ metrics[v].planned = metrics[v].started
                 /\ metrics[v].started = metrics[v].completed + metrics[v].canceled
                 /\ metrics[v].iterations = metrics[v].iterCompleted + metrics[v].iterFailed
                 /\ scenario = <<>> => metrics[v].iterations = 0
                 /\ metrics[v].completed \in Int /\ metrics[v].canceled \in Int
                 /\ metrics[v].iterCompleted \in Int /\ metrics[v].iterFailed \in Int
      <3>1. vpc[v] = "done"
        BY DEF ClosedInv, RunWaits, UsersDone
      <3>2. metrics[v] \in Counters
        BY DEF ClosedInv, Types
      <3>3. QED
        BY <3>1, <3>2 DEF ClosedInv, UserBalanced, InIteration, Counters
    <2>3. Total("planned") = Total("started")
      <3>1. Of("planned") = Of("started")
        BY <2>2
      <3>2. QED
        BY <3>1 DEF Total
    <2>4. Total("started") = Total("completed") + Total("canceled")
      <3>1. \A v \in VUs : /\ Of("completed")[v] \in Int /\ Of("canceled")[v] \in Int
                           /\ Of("started")[v] = Of("completed")[v] + Of("canceled")[v]
        BY <2>2
      <3> HIDE DEF Of
      <3>2. SumFunctionOnSet(Of("started"), VUs)
               = SumFunctionOnSet(Of("completed"), VUs) + SumFunctionOnSet(Of("canceled"), VUs)
        BY <3>1, SumAdd, VUsAssumption
      <3>3. QED
        BY <3>2 DEF Total, Of
    <2>5. Total("iterations") = Total("iterCompleted") + Total("iterFailed")
      <3>1. \A v \in VUs : /\ Of("iterCompleted")[v] \in Int /\ Of("iterFailed")[v] \in Int
                           /\ Of("iterations")[v] = Of("iterCompleted")[v] + Of("iterFailed")[v]
        BY <2>2
      <3> HIDE DEF Of
      <3>2. SumFunctionOnSet(Of("iterations"), VUs)
               = SumFunctionOnSet(Of("iterCompleted"), VUs) + SumFunctionOnSet(Of("iterFailed"), VUs)
        BY <3>1, SumAdd, VUsAssumption
      <3>3. QED
        BY <3>2 DEF Total, Of
    <2>6. scenario = <<>> => Total("iterations") = 0
      <3>1. scenario = <<>> => \A v \in VUs : Of("iterations")[v] = 0
        BY <2>2
      <3> HIDE DEF Of
      <3>2. scenario = <<>> => SumFunctionOnSet(Of("iterations"), VUs) = 0
        BY <3>1, SumZero, VUsAssumption
      <3>3. QED
        BY <3>2 DEF Total, Of
    <2>7. QED
      BY <2>1, <2>3, <2>4, <2>5, <2>6
  <1>2. QED
    BY <1>1, ClosedInvariant, PTL
-----------------------------------------------------------------------------
(* The closed scheduler implements the admission gate of the open one, with *)
(* as many places as there are users, and never drops.  It closes when Run  *)
(* has seen every user end.                                                 *)

Ended == {"complete", "merge", "returned"}

Gate == INSTANCE AdmissionGate WITH
    MaxInFlight <- Cardinality(VUs),
    admitted    <- Total("completed") + Cardinality(Sending),
    dropped     <- 0,
    finished    <- Total("completed"),
    open        <- pc \notin Ended,
    ended       <- pc = "returned"

\* The users' completed requests add up to a number.
LEMMA CompletedFacts ==
    ASSUME Types
    PROVE  /\ Total("completed") = FieldSum(metrics, "completed", VUs)
           /\ Total("completed") \in Int
           /\ \A v \in VUs : metrics[v] \in Counters /\ metrics[v].completed \in Int
  <1>1. \A v \in VUs : metrics[v] \in Counters /\ metrics[v].completed \in Int
    BY DEF Types, Counters
  <1>2. FieldSum(metrics, "completed", VUs) \in Int
    BY <1>1, VUsAssumption, FieldSumFacts
  <1>3. QED
    BY <1>1, <1>2 DEF Total, FieldSum

\* A user's step counts d completed requests more, its own.
LEMMA CompletedChange ==
    ASSUME Types, NEW v \in VUs, UserStep(v) \/ Answer(v), NEW d \in Int,
           metrics'[v].completed = metrics[v].completed + d
    PROVE  Total("completed")' = Total("completed") + d
  <1>1. Types' /\ \A u \in VUs \ {v} : metrics'[u] = metrics[u]
    BY UserStepIsLocal DEF SameUser
  <1>2. ChangesBy(metrics, metrics', "completed", VUs, v, d)
    BY <1>1, CompletedFacts DEF ChangesBy
  <1>3. FieldSum(metrics', "completed", VUs) = FieldSum(metrics, "completed", VUs) + d
    BY <1>2, VUsAssumption, FieldSumChange
  <1>4. Total("completed")' = FieldSum(metrics', "completed", VUs)
    BY DEF Total, FieldSum
  <1>5. QED
    BY <1>3, <1>4, CompletedFacts

\* A request is sent: a place is taken, and there was one.
LEMMA SendIsAdmit ==
    ASSUME ClosedInv, NEW v \in VUs, Send(v)
    PROVE  Gate!Admit
  <1>1. Types /\ UserStep(v) /\ IsFiniteSet(Sending) /\ Cardinality(Sending) \in Nat
    BY SendingFacts DEF ClosedInv, UserStep
  <1>2. pc' = pc /\ \A u \in VUs \ {v} : vpc'[u] = vpc[u]
    BY <1>1, UserStepIsLocal DEF Shared, SameUser
  <1>3. Sending' = Sending \cup {v} /\ v \notin Sending
    BY <1>1, <1>2 DEF Send, Goto, Types, Sending
  <1>4. Cardinality(Sending') = Cardinality(Sending) + 1
    BY <1>1, <1>3, FS_AddElement
  <1>5. Cardinality(Sending') <= Cardinality(VUs) /\ Cardinality(VUs) \in Nat
    <2>1. Sending' \subseteq VUs
      BY <1>3 DEF Sending
    <2>2. QED
      BY <2>1, VUsAssumption, FS_Subset, FS_CardinalityType
  <1>6. metrics'[v].completed = metrics[v].completed + 0
    <2>1. metrics[v] \in Counters /\ metrics[v].completed \in Int
      BY <1>1, CompletedFacts
    <2>2. CASE scenario = <<>>
      <3>1. metrics'[v] = CountSent(metrics[v])
        BY <1>1, <2>2 DEF Send, Types
      <3>2. QED
        BY <2>1, <3>1, CountingMore
    <2>3. CASE scenario # <<>>
      BY <2>1, <2>3 DEF Send
    <2>4. QED
      BY <2>2, <2>3
  <1>7. Total("completed")' = Total("completed") /\ Total("completed") \in Int
    <2>1. Total("completed")' = Total("completed") + 0
      BY <1>1, <1>6, CompletedChange
    <2>2. QED
      BY <1>1, <2>1, CompletedFacts
  <1>8. pc \notin Ended
    BY DEF ClosedInv, RunWaits, UsersDone, Send, Ended
  <1>9. QED
    BY <1>1, <1>2, <1>4, <1>5, <1>7, <1>8 DEF Gate!Admit, Gate!Outstanding

\* An answer, of a single request or of a step, gives the place back.
LEMMA AnswerIsFinish ==
    ASSUME ClosedInv, NEW v \in VUs, Answer(v)
    PROVE  Gate!Finish
  <1>1. Types /\ IsFiniteSet(Sending) /\ Cardinality(Sending) \in Nat
    BY SendingFacts DEF ClosedInv
  <1>2. pc' = pc /\ \A u \in VUs \ {v} : vpc'[u] = vpc[u]
    BY <1>1, UserStepIsLocal DEF Shared, SameUser
  <1>3. metrics[v] \in Counters /\ metrics[v].completed \in Int
    BY <1>1, CompletedFacts
  <1>4. vpc[v] = "exec" /\ vpc'[v] # "exec" /\ metrics'[v].completed = metrics[v].completed + 1
    <2>1. ASSUME NEW o \in Outcomes, FinishRequest(v, o)
          PROVE  vpc[v] = "exec" /\ vpc'[v] # "exec" /\ metrics'[v].completed = metrics[v].completed + 1
      <3>1. vpc[v] = "exec" /\ vpc'[v] = "check" /\ metrics'[v] = CountReturned(metrics[v])
        BY <1>1, <2>1 DEF FinishRequest, Goto, Types
      <3>2. QED
        BY <1>3, <3>1, CountingOne
    <2>2. ASSUME NEW o \in Outcomes, FinishStep(v, o)
          PROVE  vpc[v] = "exec" /\ vpc'[v] # "exec" /\ metrics'[v].completed = metrics[v].completed + 1
      <3>1. vpc[v] = "exec"
        BY <2>2 DEF FinishStep
      <3>2. CountStep(metrics[v]) \in Counters /\ CountStep(metrics[v]).completed = metrics[v].completed + 1
        BY <1>3, CountingMore
      <3>3. /\ vpc'[v] \in {"done", "check", "stepThink", "step"}
            /\ \/ metrics'[v] = CountStep(metrics[v])
               \/ success'[v] \in BOOLEAN /\ metrics'[v] = EndIteration(CountStep(metrics[v]), success'[v])
        BY <1>1, <2>2, StepAnswered
      <3>4. \A ok \in BOOLEAN : EndIteration(CountStep(metrics[v]), ok).completed = CountStep(metrics[v]).completed
        BY <3>2, Ending
      <3>5. QED
        BY <3>1, <3>2, <3>3, <3>4
    <2>3. QED
      BY <2>1, <2>2 DEF Answer
  <1>5. Sending' = Sending \ {v} /\ v \in Sending
    BY <1>2, <1>4 DEF Sending
  <1>6. Cardinality(Sending') = Cardinality(Sending) - 1 /\ Cardinality(Sending) > 0
    <2>1. Cardinality(Sending') = Cardinality(Sending) - 1
      BY <1>1, <1>5, FS_RemoveElement
    <2>2. Cardinality(Sending) # 0
      BY <1>1, <1>5, FS_EmptySet
    <2>3. QED
      BY <1>1, <2>1, <2>2
  <1>7. Total("completed")' = Total("completed") + 1 /\ Total("completed") \in Int
    BY <1>1, <1>4, CompletedChange, CompletedFacts
  <1>8. QED
    BY <1>1, <1>2, <1>6, <1>7 DEF Gate!Finish, Gate!Outstanding

\* The other steps of a user are between requests.
LEMMA OtherUserSteps ==
    ASSUME ClosedInv, NEW v \in VUs, UserStep(v), ~Send(v)
    PROVE  UNCHANGED Gate!gateVars
  <1>1. Types
    BY DEF ClosedInv
  <1>2. pc' = pc /\ \A u \in VUs \ {v} : vpc'[u] = vpc[u]
    BY <1>1, UserStepIsLocal DEF Shared, SameUser
  <1>3. vpc[v] # "exec" /\ vpc'[v] # "exec"
    BY <1>1 DEF UserStep, LeaveLoop, BeginRequest, BeginIteration, Think, ThinkTimerFires,
         CheckStep, IterationCanceled, StepThinkTimerFires, Goto, Types
  <1>4. Sending' = Sending
    BY <1>2, <1>3 DEF Sending
  <1>5. metrics[v] \in Counters /\ metrics[v].completed \in Int
    BY <1>1, CompletedFacts
  <1>6. metrics'[v].completed = metrics[v].completed + 0
    <2>1. \/ metrics'[v] = metrics[v] \/ metrics'[v] = CountIteration(metrics[v])
          \/ metrics'[v] = EndIteration(metrics[v], FALSE)
      BY <1>1 DEF UserStep, LeaveLoop, BeginRequest, BeginIteration, Think, ThinkTimerFires,
           CheckStep, IterationCanceled, StepThinkTimerFires, Types
    <2>2. /\ CountIteration(metrics[v]).completed = metrics[v].completed
          /\ EndIteration(metrics[v], FALSE).completed = metrics[v].completed
      BY <1>5, CountingOne, Ending
    <2>3. CASE metrics'[v] = metrics[v]
      BY <1>5, <2>3
    <2>4. CASE metrics'[v] = CountIteration(metrics[v])
      <3>1. metrics'[v].completed = metrics[v].completed
        BY <2>2, <2>4, Zenon
      <3>2. QED
        BY <1>5, <3>1
    <2>5. CASE metrics'[v] = EndIteration(metrics[v], FALSE)
      <3>1. metrics'[v].completed = metrics[v].completed
        BY <2>2, <2>5, Zenon
      <3>2. QED
        BY <1>5, <3>1
    <2>6. QED
      BY <2>1, <2>3, <2>4, <2>5
  <1>7. Total("completed")' = Total("completed")
    <2>1. Total("completed")' = Total("completed") + 0 /\ Total("completed") \in Int
      BY <1>1, <1>6, CompletedChange, CompletedFacts
    <2>2. QED
      BY <2>1
  <1>8. QED
    BY <1>2, <1>4, <1>7 DEF Gate!gateVars

\* Run opens nothing and takes no place: it closes the gate behind the last
\* user and ends behind the merge.
LEMMA RunIsGate ==
    ASSUME ClosedInv, CancelContext \/ Run \/ UNCHANGED vars
    PROVE  [Gate!Next]_(Gate!gateVars)
  <1>1. Types /\ RunWaits /\ metrics' = metrics
    BY RunLeavesUsers DEF ClosedInv
  <1>2. Sending' = Sending
    <2>1. CASE UNCHANGED vpc
      BY <2>1 DEF Sending
    <2>2. CASE Start /\ vpc' = [v \in VUs |-> "top"]
      BY <1>1, <2>2 DEF Start, RunWaits, UsersDone, Sending
    <2>3. QED
      BY <2>1, <2>2, RunLeavesUsers
  <1>3. Total("completed")' = Total("completed") /\ Total("completed") \in Int
    BY <1>1, CompletedFacts DEF Total
  <1>4. CASE DrainedInTime \/ AwaitUsers
    <2>1. pc \notin Ended /\ pc' \in Ended /\ pc' # "returned" /\ pc # "returned"
      BY <1>4 DEF DrainedInTime, AwaitUsers, Ended
    <2>2. Gate!Close
      BY <1>2, <1>3, <2>1 DEF Gate!Close
    <2>3. QED
      BY <2>2 DEF Gate!Next
  <1>5. CASE Merge
    <2>1. pc = "merge" /\ pc' = "returned"
      BY <1>5 DEF Merge
    <2>2. Sending = {}
      BY <1>1, <2>1 DEF RunWaits, UsersDone, Sending
    <2>3. Cardinality(Sending) = 0
      BY <2>2, FS_EmptySet
    <2>4. Gate!End
      BY <1>2, <1>3, <2>1, <2>3 DEF Gate!End, Gate!Outstanding, Ended
    <2>5. QED
      BY <2>4 DEF Gate!Next
  <1>6. CASE ~(DrainedInTime \/ AwaitUsers \/ Merge)
    <2>1. (pc' \in Ended <=> pc \in Ended) /\ (pc' = "returned" <=> pc = "returned")
      BY <1>6 DEF Run, CancelContext, Start, DurationElapses, CanceledWhileRunning, CloseStop,
           StopRunning, GraceExpires, CanceledWhileDraining, Complete, runVars, vars, Ended
    <2>2. UNCHANGED Gate!gateVars
      BY <1>2, <1>3, <2>1 DEF Gate!gateVars
    <2>3. QED
      BY <2>2
  <1>7. QED
    BY <1>4, <1>5, <1>6

\* Every run of the closed scheduler is one of the gate's: never more requests
\* under way than users, a scenario's steps included, none dropped, and none
\* under way when Run returns (closed.go:154-186).
THEOREM ImplementsTheGate == Spec => Gate!Spec
  <1>1. Init => Gate!Init
    <2> SUFFICES ASSUME Init PROVE Gate!Init
      OBVIOUS
    <2>1. Types /\ \A v \in VUs : metrics[v].completed = 0 /\ vpc[v] = "done"
      <3>1. Types
        BY ClosedInit DEF ClosedInv
      <3>2. QED
        BY <3>1 DEF Init, NoMetrics
    <2>2. FieldSum(metrics, "completed", VUs) = 0
      BY <2>1, VUsAssumption, CompletedFacts, FieldSumFacts
    <2>3. Sending = {}
      BY <2>1 DEF Sending
    <2>4. Cardinality(Sending) = 0
      BY <2>3, FS_EmptySet
    <2>5. QED
      BY <2>1, <2>2, <2>4, CompletedFacts DEF Init, Gate!Init, Ended
  <1>2. ClosedInv /\ [Next]_vars => [Gate!Next]_(Gate!gateVars)
    <2> SUFFICES ASSUME ClosedInv, [Next]_vars PROVE [Gate!Next]_(Gate!gateVars)
      OBVIOUS
    <2>1. CASE CancelContext \/ Run \/ UNCHANGED vars
      BY <2>1, RunIsGate
    <2>2. ASSUME NEW v \in VUs, UserStep(v) \/ Answer(v) PROVE [Gate!Next]_(Gate!gateVars)
      <3>1. Send(v) => Gate!Next
        BY SendIsAdmit DEF Gate!Next
      <3>2. Answer(v) => Gate!Next
        BY AnswerIsFinish DEF Gate!Next
      <3>3. UserStep(v) /\ ~Send(v) => UNCHANGED Gate!gateVars
        BY OtherUserSteps
      <3>4. QED
        BY <2>2, <3>1, <3>2, <3>3
    <2>3. QED
      BY <2>1, <2>2, NextCases
  <1>3. QED
    BY <1>1, <1>2, ClosedInvariant, PTL DEF Spec, Gate!Spec
=============================================================================
