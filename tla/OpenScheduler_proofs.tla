------------------------ MODULE OpenScheduler_proofs ------------------------
(***************************************************************************)
(* Machine-checked proofs about OpenScheduler, for every worker pool,      *)
(* every set of compiled profiles and every grace window.                  *)
(***************************************************************************)
EXTENDS OpenScheduler, Sums_proofs, SequenceTheorems

-----------------------------------------------------------------------------
(* The inductive invariant.                                                 *)

\* Between the check of the in-flight counter and its increment only workers
\* touch it, and they only decrement it: there is still room.
ReserveHasRoom == pc = "reserve" => inFlight < MaxInFlight

ClosedPcs == {"stop", "drain", "await", "awaitCanceled", "awaitErr", "complete", "merge"}

\* The channel is closed from CloseChannel or EnterStageFails on.
ClosedFromStop ==
    /\ pc \in ClosedPcs => closed
    /\ closed => pc \in ClosedPcs \cup {"returned"}

\* A worker leaves its loop only once the channel is closed and empty (a worker
\* that has not been launched counts as gone), and Run goes past its wait only
\* when every worker is gone.
WorkersLeave ==
    /\ \A w \in Workers : wpc[w] \in {"flushed", "done"} =>
           jobs = <<>> /\ (closed \/ pc \in {"start", "returned"})
    /\ pc \in {"start", "complete", "merge", "returned"} => WorkersDone

AccountInv == TypeOK /\ InFlightExact /\ ReserveHasRoom /\ ClosedFromStop /\ WorkersLeave

-----------------------------------------------------------------------------
(* Facts about the constants and the helpers.                               *)

\* The worker pool is finite and not empty, and so is what it executes.
LEMMA PoolFacts ==
    /\ MaxInFlight \in Nat \ {0}
    /\ IsFiniteSet(Executing) /\ Cardinality(Executing) \in Nat
  <1>1. IsFiniteSet(Workers) /\ Workers # {}
    BY WorkersAssumption
  <1>2. Cardinality(Workers) \in Nat /\ Cardinality(Workers) # 0
    BY <1>1, FS_CardinalityType, FS_EmptySet
  <1>3. Executing \in SUBSET Workers
    BY DEF Executing
  <1>4. IsFiniteSet(Executing)
    BY <1>1, <1>3, FS_Subset
  <1>5. Cardinality(Executing) \in Nat
    BY <1>4, FS_CardinalityType
  <1>6. QED
    BY <1>2, <1>4, <1>5 DEF MaxInFlight

\* What profile.Compile guarantees of the profile in use.
LEMMA ProfileFacts ==
    ASSUME profile \in Profiles
    PROVE  /\ profile \in Seq(Segments) /\ profile # <<>>
           /\ Len(profile) \in Nat \ {0} /\ DOMAIN profile = 1 .. Len(profile)
           /\ \A i \in DOMAIN profile :
                  /\ profile[i].stage \in Stages
                  /\ profile[i].start \in Nat /\ profile[i].end \in Nat
                  /\ profile[i].interval \in Nat \ {0}
                  /\ profile[i].start < profile[i].end
           /\ profile[1].start = 0
  <1>1. /\ profile \in Seq(Segments) /\ profile # <<>> /\ profile[1].start = 0
        /\ \A i \in DOMAIN profile : profile[i].start < profile[i].end
    BY ProfilesAssumption DEF WellFormed
  <1>2. Len(profile) \in Nat \ {0} /\ DOMAIN profile = 1 .. Len(profile)
    BY <1>1, LenProperties, EmptySeq
  <1>3. \A i \in DOMAIN profile : profile[i] \in Segments
    BY <1>1, <1>2, ElementOfSeq
  <1>4. QED
    BY <1>1, <1>2, <1>3 DEF Segments

\* Every stage has a lifecycle state, and a TransitionTo stays within the states.
LEMMA LifecycleFacts ==
    /\ \A stage \in Stages : StageState(stage) \in LifecycleStates
    /\ \A s \in LifecycleStates, t \in LifecycleStates : TransitionTo(s, t) \in LifecycleStates
  BY DEF Stages, StageState, LifecycleStates, TransitionTo

\* Counting and merging keep the types of the metrics.
LEMMA CountTypes ==
    /\ NoCounts \in Counts /\ NoDispatch \in DispatchCounts
    /\ \A d \in DispatchCounts :
           /\ CountPlanned(d) \in DispatchCounts
           /\ CountScheduled(d) \in DispatchCounts
           /\ CountDropped(d) \in DispatchCounts
    /\ \A c \in Counts : CountStarted(c) \in Counts
    /\ \A c \in Counts, o \in Outcomes \cup {"none"} : CountReturned(c, o) \in Counts
    /\ \A c \in Counts, t \in Nat : NoteThrottle(c, t) \in Counts
    /\ \A a \in Counts, b \in Counts : MergeCounts(a, b) \in Counts
  <1>1. NoCounts \in Counts /\ NoDispatch \in DispatchCounts
    BY DEF NoCounts, Counts, NoDispatch, DispatchCounts
  <1>2. \A d \in DispatchCounts :
           /\ CountPlanned(d) \in DispatchCounts
           /\ CountScheduled(d) \in DispatchCounts
           /\ CountDropped(d) \in DispatchCounts
    BY DEF DispatchCounts, CountPlanned, CountScheduled, CountDropped
  <1>3. \A c \in Counts : CountStarted(c) \in Counts
    BY DEF Counts, CountStarted
  <1>4. \A c \in Counts, o \in Outcomes \cup {"none"} : CountReturned(c, o) \in Counts
    BY DEF Counts, CountReturned
  <1>5. \A c \in Counts, t \in Nat : NoteThrottle(c, t) \in Counts
    BY DEF Counts, NoteThrottle, FirstThrottle
  <1>6. \A a \in Counts, b \in Counts : MergeCounts(a, b) \in Counts
    BY DEF Counts, MergeCounts, FirstThrottle
  <1>7. QED
    BY <1>1, <1>2, <1>3, <1>4, <1>5, <1>6

-----------------------------------------------------------------------------
(* Type correctness.                                                        *)

\* What New and the entry of Run set up is well typed.
LEMMA TypeInit == Init => TypeOK
  <1> SUFFICES ASSUME Init PROVE TypeOK
    OBVIOUS
  <1> USE DEF Init
  <1>1. /\ profile \in Profiles /\ 1 \in DOMAIN profile
    BY ProfileFacts
  <1>2. NoCounts \in Counts /\ NoDispatch \in DispatchCounts /\ NoJob \in Jobs
    BY CountTypes DEF NoJob, Jobs
  <1>3. /\ segDisp \in [DOMAIN profile -> DispatchCounts]
        /\ collected \in [DOMAIN profile -> Counts]
    BY <1>2
  <1>4. /\ wpc \in [Workers -> {"idle", "exec", "record", "flushed", "done"}]
        /\ job \in [Workers -> Jobs]
        /\ wseg \in [Workers -> DOMAIN profile \cup {0}]
        /\ outcome \in [Workers -> Outcomes \cup {"none"}]
        /\ overall \in [Workers -> Counts] /\ current \in [Workers -> Counts]
    BY <1>2
  <1>5. /\ jobs \in Seq([segment : DOMAIN profile, offset : Nat]) /\ stamps \in Seq(Nat)
    OBVIOUS
  <1>6. QED
    BY <1>1, <1>2, <1>3, <1>4, <1>5 DEF TypeOK, LifecycleStates, DispatcherPcs

\* The dispatcher's steps keep the types of what they write.
LEMMA TypeDispatcher ==
    ASSUME TypeOK, Dispatcher
    PROVE  TypeOK'
  <1> USE DEF TypeOK, ctxVars, paceVars, chanVars, countVars, workerVars, endVars, DispatcherPcs
  <1>0. /\ DOMAIN profile = 1 .. Len(profile) /\ Len(profile) \in Nat \ {0}
        /\ \A i \in DOMAIN profile :
               /\ profile[i].stage \in Stages /\ profile[i].start \in Nat
               /\ profile[i].interval \in Nat \ {0}
    BY ProfileFacts
  <1>1. CASE Start
    <2>1. wpc' \in [Workers -> {"idle", "exec", "record", "flushed", "done"}]
      BY <1>1 DEF Start
    <2>0. 1 \in DOMAIN profile
      BY <1>0
    <2>2. lifecycle' \in LifecycleStates /\ nextTick' \in Nat
      BY <1>0, <1>1, <2>0, LifecycleFacts DEF Start
    <2>3. QED
      BY <1>1, <2>1, <2>2 DEF Start
  <1>2. CASE StartFails
    BY <1>2 DEF StartFails
  <1>3. CASE ReadClock
    BY <1>3 DEF ReadClock
  <1>4. CASE PollContext
    BY <1>4 DEF PollContext
  <1>5. CASE PaceTimerFires
    BY <1>5 DEF PaceTimerFires
  <1>6. CASE CanceledWhileWaiting
    BY <1>6 DEF CanceledWhileWaiting
  <1>7. CASE PlanTick
    <2>1. disp' \in DispatchCounts /\ segDisp' \in [DOMAIN profile -> DispatchCounts]
      BY <1>7, CountTypes DEF PlanTick
    <2>2. NextTarget(nextTick, now, profile[seg].interval) \in Nat
      BY <1>0 DEF NextTarget
    <2>3. nextTick' \in Nat /\ offset' \in Nat /\ stamps' \in Seq(Nat)
      BY <1>7, <2>2 DEF PlanTick
    <2>4. QED
      BY <1>7, <2>1, <2>3 DEF PlanTick
  <1>8. CASE Drop
    <2>1. disp' \in DispatchCounts /\ segDisp' \in [DOMAIN profile -> DispatchCounts]
      BY <1>8, CountTypes DEF Drop
    <2>2. QED
      BY <1>8, <2>1 DEF Drop
  <1>9. CASE Admit
    <2>1. disp' \in DispatchCounts /\ segDisp' \in [DOMAIN profile -> DispatchCounts]
      BY <1>9, CountTypes DEF Admit
    <2>2. QED
      BY <1>9, <2>1 DEF Admit
  <1>10. CASE Reserve
    BY <1>10 DEF Reserve
  <1>11. CASE RecordPeak
    BY <1>11 DEF RecordPeak
  <1>12. CASE Send
    <2>1. jobs' \in Seq([segment : DOMAIN profile, offset : Nat])
      BY <1>12 DEF Send
    <2>2. QED
      BY <1>12, <2>1 DEF Send
  <1>13. CASE EnterNextSegment
    <2>1. seg + 1 \in DOMAIN profile
      BY <1>0, <1>13 DEF EnterNextSegment
    <2>2. lifecycle' \in LifecycleStates /\ nextTick' \in Nat /\ stamps' \in Seq(Nat)
      BY <1>0, <1>13, <2>1, LifecycleFacts DEF EnterNextSegment
    <2>3. QED
      BY <1>13, <2>1, <2>2 DEF EnterNextSegment
  <1>14. CASE EnterStageFails
    BY <1>14 DEF EnterStageFails
  <1>15. CASE ReturnError
    BY <1>15 DEF ReturnError
  <1>16. CASE CloseChannel
    BY <1>16 DEF CloseChannel
  <1>17. CASE StopScheduling
    <2>1. lifecycle' \in LifecycleStates
      BY <1>17, LifecycleFacts DEF StopScheduling, LifecycleStates
    <2>2. wakeAt' \in Nat
      BY <1>17, BoundsAssumption DEF StopScheduling
    <2>3. QED
      BY <1>17, <2>1, <2>2 DEF StopScheduling
  <1>18. CASE DrainedInTime
    BY <1>18 DEF DrainedInTime
  <1>19. CASE GraceExpires
    BY <1>19 DEF GraceExpires
  <1>20. CASE CanceledWhileDraining
    BY <1>20 DEF CanceledWhileDraining
  <1>21. CASE AwaitWorkers
    <2>1. lifecycle' \in LifecycleStates
      BY <1>21, LifecycleFacts DEF AwaitWorkers, LifecycleStates
    <2>2. QED
      BY <1>21, <2>1 DEF AwaitWorkers
  <1>22. CASE Complete
    <2>1. lifecycle' \in LifecycleStates
      BY <1>22, LifecycleFacts DEF Complete, LifecycleStates
    <2>2. QED
      BY <1>22, <2>1 DEF Complete
  <1>23. CASE Merge
    BY <1>23 DEF Merge
  <1>24. CASE EndedWhileWaiting
    BY <1>24 DEF EndedWhileWaiting
  <1>25. QED
    BY <1>24, <1>1, <1>2, <1>3, <1>4, <1>5, <1>6, <1>7, <1>8, <1>9, <1>10, <1>11, <1>12, <1>13,
       <1>14, <1>15, <1>16, <1>17, <1>18, <1>19, <1>20, <1>21, <1>22, <1>23 DEF Dispatcher

\* A worker's steps keep the types of what they write; that the counter stays a
\* natural number needs the exactness of inFlightCount.
LEMMA TypeWorker ==
    ASSUME TypeOK, InFlightExact, NEW w \in Workers,
           WorkerStep(w) \/ \E o \in Outcomes : FinishRequest(w, o)
    PROVE  TypeOK'
  <1> USE DEF TypeOK, ctxVars, paceVars, chanVars, countVars, workerVars, endVars
  <1>0. Flushed(w) \in [DOMAIN profile -> Counts]
    BY CountTypes DEF Flushed
  <1>1. CASE Receive(w)
    <2>1. /\ Head(jobs) \in [segment : DOMAIN profile, offset : Nat]
          /\ jobs' \in Seq([segment : DOMAIN profile, offset : Nat])
      BY <1>1, HeadTailProperties DEF Receive
    <2>2. DOMAIN profile \subseteq Nat
      BY ProfileFacts
    <2>3. /\ job' \in [Workers -> Jobs]
          /\ wseg' \in [Workers -> DOMAIN profile \cup {0}]
      BY <1>1, <2>1, <2>2 DEF Receive, Jobs
    <2>4. collected' \in [DOMAIN profile -> Counts]
      BY <1>0, <1>1 DEF Receive
    <2>5. /\ overall' \in [Workers -> Counts]
          /\ current' \in [Workers -> Counts]
      BY <1>1, CountTypes DEF Receive
    <2>6. wpc' \in [Workers -> {"idle", "exec", "record", "flushed", "done"}]
      BY <1>1 DEF Receive
    <2>7. QED
      BY <1>1, <2>1, <2>3, <2>4, <2>5, <2>6 DEF Receive
  <1>2. CASE Record(w)
    <2>1. overall' \in [Workers -> Counts]
      BY <1>2, CountTypes DEF Record
    <2>2. /\ outcome[w] \in Outcomes \cup {"none"} /\ current[w] \in Counts
          /\ job[w].offset \in Nat
      BY DEF Jobs
    <2>3. /\ CountReturned(current[w], outcome[w]) \in Counts
          /\ NoteThrottle(CountReturned(current[w], outcome[w]), job[w].offset) \in Counts
      BY <2>2, CountTypes
    <2>4. current' \in [Workers -> Counts]
      BY <1>2, <2>3 DEF Record
    <2>5. QED
      BY <1>2, <2>1, <2>4 DEF Record
  <1>3. CASE LeaveLoop(w)
    BY <1>0, <1>3 DEF LeaveLoop
  <1>4. CASE Done(w)
    BY <1>4 DEF Done
  <1>5. ASSUME NEW o \in Outcomes, FinishRequest(w, o)
        PROVE  TypeOK'
    <2>1. Executing # {}
      BY <1>5 DEF FinishRequest, Executing
    <2>2. Cardinality(Executing) > 0
      BY <2>1, PoolFacts, FS_EmptySet
    <2>3. inFlight' \in Nat
      BY <1>5, <2>2, PoolFacts DEF FinishRequest, InFlightExact, Reserved
    <2>4. QED
      BY <1>5, <2>3 DEF FinishRequest
  <1>6. QED
    BY <1>1, <1>2, <1>3, <1>4, <1>5 DEF WorkerStep

\* Every step keeps the types.
LEMMA TypeStep ==
    ASSUME TypeOK, InFlightExact, [Next]_vars
    PROVE  TypeOK'
  <1>1. CASE Tick
    BY <1>1 DEF Tick, TypeOK, paceVars, chanVars, countVars, workerVars, endVars
  <1>2. CASE CancelContext
    BY <1>2 DEF CancelContext, TypeOK, paceVars, chanVars, countVars, workerVars, endVars
  <1>3. CASE UNCHANGED vars
    BY <1>3 DEF vars, TypeOK, ctxVars, paceVars, chanVars, countVars, workerVars, endVars, Outcomes
  <1>4. QED
    BY <1>1, <1>2, <1>3, TypeDispatcher, TypeWorker DEF Next, Terminated

-----------------------------------------------------------------------------
(* The in-flight accounting.                                                *)

\* The steps of the dispatcher and its environment that neither reserve, send
\* nor launch workers.
Elsewhere ==
    \/ Tick \/ CancelContext
    \/ StartFails \/ ReadClock \/ PollContext \/ PaceTimerFires \/ CanceledWhileWaiting
    \/ EndedWhileWaiting \/ PlanTick \/ Drop \/ Admit
    \/ EnterNextSegment \/ EnterStageFails \/ ReturnError
    \/ CloseChannel \/ StopScheduling \/ DrainedInTime \/ GraceExpires
    \/ CanceledWhileDraining \/ AwaitWorkers \/ Complete \/ Merge

\* A step either leaves the counters alone or is one of the steps named here.
LEMMA NextCases ==
    ASSUME [Next]_vars
    PROVE  \/ Elsewhere \/ Start \/ Reserve \/ RecordPeak \/ Send
           \/ \E w \in Workers : Receive(w)
           \/ \E w \in Workers, o \in Outcomes : FinishRequest(w, o)
           \/ \E w \in Workers : Record(w) \/ LeaveLoop(w) \/ Done(w)
           \/ UNCHANGED vars
  BY DEF Next, Dispatcher, WorkerStep, Terminated, Elsewhere

\* The steps that touch neither the counters, nor the channel, nor a worker.
LEMMA ElsewhereKeepsCounters ==
    ASSUME Elsewhere
    PROVE  UNCHANGED <<inFlight, peak, jobs, wpc>> /\ Reserved' = Reserved
  BY DEF Elsewhere, Tick, CancelContext, StartFails, ReadClock, PollContext, PaceTimerFires,
         CanceledWhileWaiting, EndedWhileWaiting, PlanTick, Drop, Admit, EnterNextSegment,
         EnterStageFails, ReturnError, CloseChannel, StopScheduling, DrainedInTime, GraceExpires,
         CanceledWhileDraining, AwaitWorkers, Complete, Merge, Reserved, chanVars, countVars,
         workerVars

\* How a step of worker w changes the set of executing workers.
LEMMA ExecutingChanges ==
    ASSUME TypeOK, NEW w \in Workers, NEW v, wpc' = [wpc EXCEPT ![w] = v]
    PROVE  /\ v = "exec" => Executing' = Executing \cup {w}
           /\ v # "exec" => Executing' = Executing \ {w}
  BY DEF TypeOK, Executing

\* Every step keeps inFlightCount exact and within max_in_flight.
LEMMA InFlightStep ==
    ASSUME TypeOK, InFlightExact, ReserveHasRoom, WorkersLeave, [Next]_vars
    PROVE  InFlightExact'
  <1>0. /\ MaxInFlight \in Nat /\ Len(jobs) \in Nat /\ inFlight \in Nat /\ peak \in Nat
        /\ IsFiniteSet(Executing) /\ Cardinality(Executing) \in Nat
        /\ Reserved \in Nat
    BY PoolFacts, LenProperties DEF TypeOK, Reserved
  <1>1. ASSUME UNCHANGED <<inFlight, peak, jobs, wpc>>, Reserved' = Reserved
        PROVE  InFlightExact'
    <2>1. Executing' = Executing
      BY <1>1 DEF Executing
    <2>2. QED
      BY <1>1, <2>1 DEF InFlightExact
  <1>2. CASE Elsewhere
    BY <1>1, <1>2, ElsewhereKeepsCounters
  <1>3. CASE Start
    <2>1. Executing = {} /\ Executing' = {}
      BY <1>3 DEF Start, WorkersLeave, WorkersDone, Executing
    <2>2. UNCHANGED <<inFlight, peak, jobs>> /\ Reserved' = Reserved
      BY <1>3 DEF Start, Reserved, chanVars, countVars
    <2>3. QED
      BY <2>1, <2>2 DEF InFlightExact
  <1>4. CASE Reserve
    <2>1. Executing' = Executing
      BY <1>4 DEF Reserve, Executing, workerVars
    <2>2. QED
      BY <1>0, <1>4, <2>1 DEF Reserve, InFlightExact, ReserveHasRoom, Reserved, chanVars
  <1>5. CASE RecordPeak
    <2>1. Executing' = Executing
      BY <1>5 DEF RecordPeak, Executing, workerVars
    <2>2. QED
      BY <1>0, <1>5, <2>1 DEF RecordPeak, InFlightExact, Reserved, chanVars
  <1>6. CASE Send
    <2>1. Executing' = Executing
      BY <1>6 DEF Send, Executing, workerVars
    <2>2. Len(jobs') = Len(jobs) + 1
      BY <1>6 DEF Send, TypeOK
    <2>3. QED
      BY <1>0, <1>6, <2>1, <2>2 DEF Send, InFlightExact, Reserved, countVars
  <1>7. ASSUME NEW w \in Workers, Receive(w) PROVE InFlightExact'
    <2>1. Executing' = Executing \cup {w} /\ w \notin Executing
      BY <1>7, ExecutingChanges DEF Receive, Executing
    <2>2. Cardinality(Executing') = Cardinality(Executing) + 1
      BY <1>0, <2>1, FS_AddElement
    <2>3. Len(jobs') = Len(jobs) - 1
      BY <1>7, HeadTailProperties DEF Receive, TypeOK
    <2>4. UNCHANGED <<inFlight, peak>> /\ Reserved' = Reserved
      BY <1>7 DEF Receive, countVars, Reserved
    <2>5. QED
      BY <1>0, <2>2, <2>3, <2>4 DEF InFlightExact
  <1>8. ASSUME NEW w \in Workers, NEW o \in Outcomes, FinishRequest(w, o) PROVE InFlightExact'
    <2>0. wpc[w] = "exec" /\ wpc' = [wpc EXCEPT ![w] = "record"]
      BY <1>8 DEF FinishRequest
    <2>1. Executing' = Executing \ {w} /\ w \in Executing
      BY <2>0 DEF Executing, TypeOK
    <2>2. Cardinality(Executing') = Cardinality(Executing) - 1
      BY <1>0, <2>1, FS_RemoveElement
    <2>3. UNCHANGED <<jobs, peak>> /\ inFlight' = inFlight - 1 /\ Reserved' = Reserved
      BY <1>8 DEF FinishRequest, chanVars, countVars, Reserved
    <2>4. QED
      BY <1>0, <2>2, <2>3 DEF InFlightExact
  <1>9. ASSUME NEW w \in Workers, Record(w) \/ LeaveLoop(w) \/ Done(w) PROVE InFlightExact'
    <2>1. Executing' = Executing \ {w} /\ w \notin Executing
      BY <1>9, ExecutingChanges DEF Record, LeaveLoop, Done, Executing
    <2>2. Executing' = Executing
      BY <2>1
    <2>3. UNCHANGED <<jobs, peak, inFlight>> /\ Reserved' = Reserved
      BY <1>9 DEF Record, LeaveLoop, Done, chanVars, countVars, Reserved
    <2>4. QED
      BY <2>2, <2>3 DEF InFlightExact
  <1>10. CASE UNCHANGED vars
    BY <1>1, <1>10 DEF vars, chanVars, countVars, workerVars, Reserved
  <1>11. QED
    BY <1>2, <1>3, <1>4, <1>5, <1>6, <1>7, <1>8, <1>9, <1>10, NextCases

\* Between the saturation check and the increment workers only decrement, so
\* the room that was seen is still there.
LEMMA ReserveStep ==
    ASSUME TypeOK, ReserveHasRoom, [Next]_vars
    PROVE  ReserveHasRoom'
  <1>0. MaxInFlight \in Nat /\ inFlight \in Nat
    BY PoolFacts DEF TypeOK
  <1>1. CASE Dispatcher
    BY <1>0, <1>1 DEF Dispatcher, ReserveHasRoom, Start, StartFails, ReadClock, PollContext,
         PaceTimerFires, CanceledWhileWaiting, EndedWhileWaiting, PlanTick, Drop, Admit, Saturated,
         Reserve, RecordPeak, Send, EnterNextSegment, EnterStageFails, ReturnError, CloseChannel,
         StopScheduling, DrainedInTime, GraceExpires, CanceledWhileDraining, AwaitWorkers, Complete,
         Merge
  <1>2. ASSUME NEW w \in Workers, WorkerStep(w) \/ \E o \in Outcomes : FinishRequest(w, o)
        PROVE  ReserveHasRoom'
    BY <1>0, <1>2 DEF WorkerStep, Receive, Record, LeaveLoop, Done, FinishRequest,
         ReserveHasRoom, countVars
  <1>3. CASE Tick \/ CancelContext \/ UNCHANGED vars
    BY <1>3 DEF Tick, CancelContext, vars, countVars, ReserveHasRoom
  <1>4. QED
    BY <1>1, <1>2, <1>3 DEF Next, Terminated

\* The dispatch channel is closed exactly once the dispatcher stopped scheduling.
LEMMA ClosedStep ==
    ASSUME TypeOK, ClosedFromStop, [Next]_vars
    PROVE  ClosedFromStop'
  <1> USE DEF ClosedFromStop, ClosedPcs, chanVars
  <1>1. CASE Dispatcher
    BY <1>1 DEF Dispatcher, Start, StartFails, ReadClock, PollContext,
         PaceTimerFires, CanceledWhileWaiting, EndedWhileWaiting, PlanTick, Drop, Admit,
         Reserve, RecordPeak, Send, EnterNextSegment, EnterStageFails, ReturnError, CloseChannel,
         StopScheduling, DrainedInTime, GraceExpires, CanceledWhileDraining, AwaitWorkers, Complete,
         Merge
  <1>2. ASSUME NEW w \in Workers, WorkerStep(w) \/ \E o \in Outcomes : FinishRequest(w, o)
        PROVE  ClosedFromStop'
    BY <1>2 DEF WorkerStep, Receive, Record, LeaveLoop, Done, FinishRequest
  <1>3. CASE Tick \/ CancelContext \/ UNCHANGED vars
    BY <1>3 DEF Tick, CancelContext, vars
  <1>4. QED
    BY <1>1, <1>2, <1>3 DEF Next, Terminated

\* A worker leaves only a closed and empty channel, and Run goes past its waits
\* only when all have left.
LEMMA WorkersLeaveStep ==
    ASSUME AccountInv, [Next]_vars
    PROVE  WorkersLeave'
  <1> USE DEF AccountInv
  <1>0. \E w \in Workers : TRUE
    BY WorkersAssumption
  <1>1. CASE Elsewhere
    <2>1. UNCHANGED <<wpc, jobs>>
      BY <1>1, ElsewhereKeepsCounters
    <2>2. /\ closed => closed'
          /\ pc \in {"start", "returned"} => pc' \in {"start", "returned"}
          /\ pc' \in {"start", "complete", "merge", "returned"} => WorkersDone
      BY <1>1 DEF Elsewhere, Tick, CancelContext, StartFails, ReadClock, PollContext,
           PaceTimerFires, CanceledWhileWaiting, EndedWhileWaiting, PlanTick, Drop, Admit,
           EnterNextSegment, EnterStageFails, ReturnError, CloseChannel, StopScheduling,
           DrainedInTime, GraceExpires, CanceledWhileDraining, AwaitWorkers, Complete, Merge,
           chanVars, WorkersLeave
    <2>3. QED
      BY <2>1, <2>2 DEF WorkersLeave, WorkersDone
  <1>2. CASE Start
    BY <1>2 DEF Start, WorkersLeave, chanVars
  <1>3. CASE Reserve \/ RecordPeak
    BY <1>3 DEF Reserve, RecordPeak, WorkersLeave, WorkersDone, chanVars, workerVars
  <1>4. CASE Send
    <2>1. ~closed
      BY <1>4 DEF Send, ClosedFromStop, ClosedPcs
    <2>2. \A w \in Workers : wpc[w] \notin {"flushed", "done"}
      BY <1>4, <2>1 DEF Send, WorkersLeave
    <2>3. QED
      BY <1>4, <2>2 DEF Send, WorkersLeave, workerVars
  <1>5. ASSUME NEW w \in Workers, Receive(w) PROVE WorkersLeave'
    <2>1. jobs # <<>> /\ wpc' = [wpc EXCEPT ![w] = "exec"] /\ UNCHANGED pc
      BY <1>5 DEF Receive
    <2>2. \A v \in Workers : wpc[v] \notin {"flushed", "done"}
      BY <2>1 DEF WorkersLeave
    <2>3. \A v \in Workers : wpc'[v] \notin {"flushed", "done"}
      BY <2>1, <2>2 DEF TypeOK
    <2>4. pc \notin {"start", "complete", "merge", "returned"}
      BY <1>0, <2>2 DEF WorkersLeave, WorkersDone
    <2>5. QED
      BY <2>1, <2>3, <2>4 DEF WorkersLeave
  <1>6. ASSUME NEW w \in Workers, NEW v \in {"record", "idle", "flushed", "done"},
               wpc[w] # "done", wpc' = [wpc EXCEPT ![w] = v],
               v \in {"flushed", "done"} => jobs = <<>> /\ closed,
               UNCHANGED <<jobs, closed, pc>>
        PROVE  WorkersLeave'
    <2>1. pc \notin {"start", "complete", "merge", "returned"}
      BY <1>6 DEF WorkersLeave, WorkersDone
    <2>2. QED
      BY <1>6, <2>1 DEF WorkersLeave, TypeOK
  <1>7. ASSUME NEW w \in Workers, NEW o \in Outcomes, FinishRequest(w, o) PROVE WorkersLeave'
    <2>1. /\ wpc[w] # "done" /\ wpc' = [wpc EXCEPT ![w] = "record"]
          /\ UNCHANGED <<jobs, closed, pc>>
      BY <1>7 DEF FinishRequest, chanVars
    <2>2. QED
      BY <1>6, <2>1
  <1>8. ASSUME NEW w \in Workers, Record(w) PROVE WorkersLeave'
    <2>1. /\ wpc[w] # "done" /\ wpc' = [wpc EXCEPT ![w] = "idle"]
          /\ UNCHANGED <<jobs, closed, pc>>
      BY <1>8 DEF Record, chanVars
    <2>2. QED
      BY <1>6, <2>1
  <1>9. ASSUME NEW w \in Workers, LeaveLoop(w) PROVE WorkersLeave'
    <2>1. /\ wpc[w] # "done" /\ wpc' = [wpc EXCEPT ![w] = "flushed"]
          /\ jobs = <<>> /\ closed /\ UNCHANGED <<jobs, closed, pc>>
      BY <1>9 DEF LeaveLoop, chanVars
    <2>2. QED
      BY <1>6, <2>1
  <1>10. ASSUME NEW w \in Workers, Done(w) PROVE WorkersLeave'
    <2>1. /\ wpc[w] = "flushed" /\ wpc' = [wpc EXCEPT ![w] = "done"]
          /\ UNCHANGED <<jobs, closed, pc>>
      BY <1>10 DEF Done, chanVars
    <2>2. pc \notin {"start", "returned"}
      BY <2>1 DEF WorkersLeave, WorkersDone
    <2>3. jobs = <<>> /\ closed
      BY <2>1, <2>2 DEF WorkersLeave
    <2>4. QED
      BY <1>6, <2>1, <2>3
  <1>11. CASE UNCHANGED vars
    BY <1>11 DEF vars, WorkersLeave, WorkersDone, chanVars, workerVars
  <1>12. QED
    BY <1>1, <1>2, <1>3, <1>4, <1>5, <1>7, <1>8, <1>9, <1>10, <1>11, NextCases

\* The accounting invariant holds before Run starts.
LEMMA AccountInit == Init => AccountInv
  <1> SUFFICES ASSUME Init PROVE AccountInv
    OBVIOUS
  <1>1. TypeOK
    BY TypeInit
  <1>2. Executing = {} /\ Reserved = 0 /\ Len(jobs) = 0
    BY DEF Init, Executing, Reserved
  <1>3. InFlightExact
    BY <1>2, PoolFacts, FS_EmptySet DEF Init, InFlightExact
  <1>4. ReserveHasRoom /\ ClosedFromStop /\ WorkersLeave
    BY DEF Init, ReserveHasRoom, ClosedFromStop, ClosedPcs, WorkersLeave, WorkersDone
  <1>5. QED
    BY <1>1, <1>3, <1>4 DEF AccountInv

\* The accounting invariant is inductive.
THEOREM Accounting == Spec => []AccountInv
  <1>1. AccountInv /\ [Next]_vars => AccountInv'
    BY TypeStep, InFlightStep, ReserveStep, ClosedStep, WorkersLeaveStep DEF AccountInv
  <1>2. QED
    BY <1>1, AccountInit, PTL DEF Spec

\* Every variable keeps its type (TypeOK), for every pool, profile and window.
THEOREM TypeCorrect == Spec => []TypeOK
  BY Accounting, PTL DEF AccountInv

\* inFlightCount is exact and neither it nor the peak exceeds max_in_flight.
THEOREM InFlightIsExact == Spec => []InFlightExact
  BY Accounting, PTL DEF AccountInv

\* The dispatcher's unguarded channel send never blocks.
THEOREM SendIsFree == Spec => []SendNeverBlocks
  <1>1. AccountInv => SendNeverBlocks
    <2> SUFFICES ASSUME AccountInv, pc = "send" PROVE Len(jobs) < MaxInFlight
      BY DEF SendNeverBlocks
    <2>1. /\ MaxInFlight \in Nat /\ Len(jobs) \in Nat /\ Cardinality(Executing) \in Nat
          /\ Reserved = 1
      BY PoolFacts, LenProperties DEF AccountInv, TypeOK, Reserved
    <2>2. QED
      BY <2>1 DEF AccountInv, InFlightExact
  <1>2. QED
    BY <1>1, Accounting, PTL

\* When Run returns, no worker, queued job or in-flight count is left behind.
THEOREM LeavesNothingBehind == Spec => []NothingLeftBehind
  <1>1. AccountInv => NothingLeftBehind
    <2> SUFFICES ASSUME AccountInv, pc = "returned"
                 PROVE  (\A w \in Workers : wpc[w] = "done") /\ jobs = <<>> /\ inFlight = 0
      BY DEF NothingLeftBehind
    <2>1. \A w \in Workers : wpc[w] = "done"
      BY DEF AccountInv, WorkersLeave, WorkersDone
    <2>2. jobs = <<>>
      BY <2>1, WorkersAssumption DEF AccountInv, WorkersLeave
    <2>3. Executing = {} /\ Reserved = 0
      BY <2>1 DEF Executing, Reserved
    <2>4. inFlight = 0
      BY <2>2, <2>3, FS_EmptySet DEF AccountInv, InFlightExact
    <2>5. QED
      BY <2>1, <2>2, <2>4
  <1>2. QED
    BY <1>1, Accounting, PTL

-----------------------------------------------------------------------------
(* Pacing: the next target time is a bound on the ticks already planned.    *)

Interval == profile[seg].interval

\* The pacing loop acts on a clock reading that is not ahead of the clock, its
\* timer does not fire early, and it stamps a tick only when its target time has
\* come.
TimerNotEarly ==
    /\ seen <= now
    /\ pc = "wait" => wakeAt >= nextTick
    /\ pc = "stamp" => now >= nextTick
    /\ pc = "start" => seg = 1 /\ stamps = <<>>

\* nextTargetTick leaves room for every tick already planned in this segment.
TargetAhead ==
    /\ nextTick >= profile[seg].start + Len(stamps) * Interval
    /\ \A i \in 1 .. Len(stamps) : nextTick >= stamps[i] + (Len(stamps) - i) * Interval

PaceInv == TimerNotEarly /\ TargetAhead /\ NoCatchUpBurst

\* One interval more on both sides of a pacing bound.
LEMMA OneIntervalOn ==
    ASSUME NEW k \in Nat, NEW I \in Nat, NEW base \in Nat, NEW target \in Nat, NEW next \in Nat,
           target >= base + k * I, next >= target + I
    PROVE  next >= base + (k + 1) * I
  <1>1. (k + 1) * I = k * I + I /\ k * I \in Int
    OBVIOUS
  <1>2. QED
    BY <1>1

\* A pacing timer never fires before the target it was computed for.
LEMMA TimerStep ==
    ASSUME TypeOK, TimerNotEarly, [Next]_vars
    PROVE  TimerNotEarly'
  <1> USE DEF TypeOK, TimerNotEarly, ctxVars, paceVars
  <1>1. CASE Dispatcher
    BY <1>1 DEF Dispatcher, Start, StartFails, ReadClock, PollContext,
         PaceTimerFires, CanceledWhileWaiting, EndedWhileWaiting, PlanTick, Drop, Admit,
         Reserve, RecordPeak, Send, EnterNextSegment, EnterStageFails, ReturnError, CloseChannel,
         StopScheduling, DrainedInTime, GraceExpires, CanceledWhileDraining, AwaitWorkers, Complete,
         Merge
  <1>2. ASSUME NEW w \in Workers, WorkerStep(w) \/ \E o \in Outcomes : FinishRequest(w, o)
        PROVE  TimerNotEarly'
    BY <1>2 DEF WorkerStep, Receive, Record, LeaveLoop, Done, FinishRequest
  <1>3. CASE Tick \/ CancelContext \/ UNCHANGED vars
    BY <1>3 DEF Tick, CancelContext, vars
  <1>4. QED
    BY <1>1, <1>2, <1>3 DEF Next, Terminated

\* Planning a tick moves the target by at least one interval, and past now.
LEMMA NextTargetMoves ==
    ASSUME NEW target \in Nat, NEW actual \in Nat, NEW interval \in Nat, actual >= target
    PROVE  /\ NextTarget(target, actual, interval) >= target + interval
           /\ NextTarget(target, actual, interval) >= actual
  BY DEF NextTarget

\* Planning a tick keeps the pacing bounds for the ticks so far and the next.
LEMMA PlanTickPaces ==
    ASSUME TypeOK, PaceInv, PlanTick
    PROVE  TargetAhead' /\ NoCatchUpBurst'
  <1> DEFINE n == Len(stamps)
             I == profile[seg].interval
             start == profile[seg].start
  <1>1. /\ seg \in DOMAIN profile /\ I \in Nat /\ start \in Nat /\ n \in Nat
        /\ nextTick \in Nat /\ now \in Nat
        /\ \A i \in 1 .. n : stamps[i] \in Nat
    BY ProfileFacts, LenProperties, ElementOfSeq DEF TypeOK
  <1>2. /\ stamps' = Append(stamps, now) /\ UNCHANGED <<profile, seg>>
        /\ nextTick' = NextTarget(nextTick, now, I)
        /\ now >= nextTick
    BY DEF PlanTick, PaceInv, TimerNotEarly
  <1>3. nextTick' \in Nat /\ nextTick' >= nextTick + I /\ nextTick' >= now
    BY <1>1, <1>2, NextTargetMoves DEF NextTarget
  <1>4. /\ Len(stamps') = n + 1 /\ DOMAIN stamps' = 1 .. (n + 1) /\ DOMAIN stamps = 1 .. n
        /\ stamps'[n + 1] = now
        /\ \A i \in 1 .. n : stamps'[i] = stamps[i]
    BY <1>1, <1>2, AppendProperties, LenProperties DEF TypeOK
  <1>5. /\ nextTick >= start + n * I
        /\ \A i \in 1 .. n : nextTick >= stamps[i] + (n - i) * I
        /\ \A i \in 1 .. n : stamps[i] >= start + (i - 1) * I
        /\ \A i, j \in 1 .. n : i < j => stamps[j] - stamps[i] >= (j - i - 1) * I
    BY <1>4 DEF PaceInv, TargetAhead, NoCatchUpBurst, Interval
  <1> HIDE DEF n, I, start
  <1>6. nextTick' >= start + (n + 1) * I
    BY <1>1, <1>3, <1>5, OneIntervalOn
  <1>7. ASSUME NEW i \in 1 .. (n + 1)
        PROVE  nextTick' >= stamps'[i] + (n + 1 - i) * I
    <2>1. CASE i = n + 1
      <3>1. (n + 1 - i) * I = 0
        BY <1>1, <2>1
      <3>2. QED
        BY <1>1, <1>3, <1>4, <2>1, <3>1
    <2>2. CASE i \in 1 .. n
      <3>1. n - i \in Nat /\ stamps[i] \in Nat /\ n + 1 - i = (n - i) + 1
        BY <1>1, <2>2
      <3>2. nextTick >= stamps[i] + (n - i) * I
        BY <1>5, <2>2
      <3>3. nextTick' >= stamps[i] + ((n - i) + 1) * I
        BY <1>1, <1>3, <3>1, <3>2, OneIntervalOn
      <3>4. QED
        BY <1>4, <2>2, <3>1, <3>3
    <2>3. QED
      BY <1>1, <2>1, <2>2
  <1>8. ASSUME NEW i \in 1 .. (n + 1)
        PROVE  stamps'[i] >= start + (i - 1) * I
    <2>1. CASE i = n + 1
      <3>1. (i - 1) * I = n * I /\ n * I \in Int
        BY <1>1, <2>1
      <3>2. QED
        BY <1>1, <1>2, <1>4, <1>5, <2>1, <3>1
    <2>2. CASE i \in 1 .. n
      BY <1>4, <1>5, <2>2
    <2>3. QED
      BY <1>1, <2>1, <2>2
  <1>9. ASSUME NEW i \in 1 .. (n + 1), NEW j \in 1 .. (n + 1), i < j
        PROVE  stamps'[j] - stamps'[i] >= (j - i - 1) * I
    <2>1. i \in 1 .. n
      BY <1>1, <1>9
    <2>2. CASE j = n + 1
      <3>1. (j - i - 1) * I = (n - i) * I /\ (n - i) * I \in Int
        BY <1>1, <2>1, <2>2
      <3>2. QED
        BY <1>1, <1>2, <1>4, <1>5, <2>1, <2>2, <3>1
    <2>3. CASE j \in 1 .. n
      BY <1>4, <1>5, <1>9, <2>1, <2>3
    <2>4. QED
      BY <1>1, <2>2, <2>3
  <1>10. QED
    BY <1>2, <1>4, <1>6, <1>7, <1>8, <1>9 DEF TargetAhead, NoCatchUpBurst, Interval, n, I, start

\* Every step keeps the pacing invariant.
LEMMA PaceStep ==
    ASSUME TypeOK, PaceInv, [Next]_vars
    PROVE  PaceInv'
  <1>1. TimerNotEarly'
    BY TimerStep DEF PaceInv
  <1> SUFFICES TargetAhead' /\ NoCatchUpBurst'
    BY <1>1 DEF PaceInv
  <1>2. ASSUME UNCHANGED <<profile, seg, nextTick, stamps>>
        PROVE  TargetAhead' /\ NoCatchUpBurst'
    BY <1>2 DEF PaceInv, TargetAhead, NoCatchUpBurst, Interval
  <1>3. ASSUME UNCHANGED profile, seg' \in DOMAIN profile, stamps' = <<>>,
               nextTick' = profile[seg'].start
        PROVE  TargetAhead' /\ NoCatchUpBurst'
    <2>1. profile[seg'].start \in Nat /\ profile[seg'].interval \in Nat
      BY <1>3, ProfileFacts DEF TypeOK
    <2>2. 0 * profile[seg'].interval = 0
      BY <2>1
    <2>3. QED
      BY <1>3, <2>1, <2>2 DEF TargetAhead, NoCatchUpBurst, Interval
  <1>4. CASE Start
    <2>1. /\ seg = 1 /\ stamps = <<>> /\ UNCHANGED <<profile, seg, stamps>>
          /\ nextTick' = profile[1].start
      BY <1>4 DEF Start, PaceInv, TimerNotEarly
    <2>2. 1 \in DOMAIN profile
      BY ProfileFacts DEF TypeOK
    <2>3. QED
      BY <1>3, <2>1, <2>2
  <1>5. CASE EnterNextSegment
    <2>1. /\ seg' = seg + 1 /\ stamps' = <<>> /\ UNCHANGED profile
          /\ nextTick' = profile[seg + 1].start /\ seg < Len(profile)
      BY <1>5 DEF EnterNextSegment
    <2>2. seg + 1 \in DOMAIN profile
      BY <2>1, ProfileFacts DEF TypeOK
    <2>3. QED
      BY <1>3, <2>1, <2>2
  <1>6. CASE PlanTick
    BY <1>6, PlanTickPaces
  <1>7. CASE Elsewhere /\ ~EnterNextSegment /\ ~PlanTick
    <2>1. UNCHANGED <<profile, seg, nextTick, stamps>>
      BY <1>7 DEF Elsewhere, Tick, CancelContext, StartFails, ReadClock, PollContext,
           PaceTimerFires, CanceledWhileWaiting, EndedWhileWaiting, Drop, Admit, EnterStageFails,
           ReturnError, CloseChannel, StopScheduling, DrainedInTime, GraceExpires,
           CanceledWhileDraining, AwaitWorkers, Complete, Merge, paceVars
    <2>2. QED
      BY <1>2, <2>1
  <1>8. CASE Reserve \/ RecordPeak \/ Send
    BY <1>2, <1>8 DEF Reserve, RecordPeak, Send, paceVars
  <1>9. ASSUME NEW w \in Workers, Receive(w) \/ Record(w) \/ LeaveLoop(w) \/ Done(w)
        PROVE  TargetAhead' /\ NoCatchUpBurst'
    BY <1>2, <1>9 DEF Receive, Record, LeaveLoop, Done, paceVars
  <1>10. ASSUME NEW w \in Workers, NEW o \in Outcomes, FinishRequest(w, o)
         PROVE  TargetAhead' /\ NoCatchUpBurst'
    BY <1>2, <1>10 DEF FinishRequest, paceVars
  <1>11. CASE UNCHANGED vars
    BY <1>2, <1>11 DEF vars, paceVars
  <1>12. QED
    BY <1>4, <1>5, <1>6, <1>7, <1>8, <1>9, <1>10, <1>11, NextCases

\* The pacing invariant is inductive, given the types.
THEOREM Pacing == Spec => []PaceInv
  <1>1. Init => PaceInv
    <2> SUFFICES ASSUME Init PROVE PaceInv
      OBVIOUS
    <2>1. /\ seg = 1 /\ stamps = <<>> /\ Len(stamps) = 0 /\ DOMAIN stamps = {}
          /\ nextTick = 0 /\ profile[1].start = 0 /\ profile[1].interval \in Nat
      BY ProfileFacts DEF Init
    <2>2. 0 * profile[1].interval = 0
      BY <2>1
    <2>3. QED
      BY <2>1, <2>2 DEF Init, PaceInv, TimerNotEarly, TargetAhead, NoCatchUpBurst, Interval
  <1>2. TypeOK /\ PaceInv /\ [Next]_vars => PaceInv'
    BY PaceStep
  <1>3. QED
    BY <1>1, <1>2, TypeCorrect, PTL DEF Spec

\* No catch-up burst, for every profile: however the dispatcher is delayed, no
\* tick is planned before its target time and n + 2 consecutive ticks span at
\* least n intervals.
THEOREM NeverBursts == Spec => []NoCatchUpBurst
  BY Pacing, PTL DEF PaceInv

-----------------------------------------------------------------------------
(* The scheduler implements the admission gate.                             *)

\* Every step of the scheduler is a step of the admission gate or changes nothing
\* the gate sees.
LEMMA GateStep ==
    ASSUME AccountInv, [Next]_vars
    PROVE  [Gate!Next]_(Gate!gateVars)
  <1> USE DEF Gate!Next, Gate!gateVars, Gate!Outstanding
  <1>0. /\ MaxInFlight \in Nat /\ inFlight \in Nat /\ closed \in BOOLEAN
        /\ disp.scheduled \in Nat /\ disp.dropped \in Nat
        /\ pc \in ClosedPcs => closed
        /\ closed => pc \in ClosedPcs \cup {"returned"}
        /\ inFlight <= MaxInFlight
    BY PoolFacts DEF AccountInv, TypeOK, DispatchCounts, ClosedFromStop, InFlightExact
  <1>1. CASE Admit
    <2>1. disp'.scheduled = disp.scheduled + 1 /\ disp'.dropped = disp.dropped
      BY <1>1 DEF Admit, CountScheduled, AccountInv, TypeOK, DispatchCounts
    <2>2. Gate!Admit
      BY <1>0, <1>1, <2>1 DEF Admit, Saturated, Gate!Admit, chanVars, ClosedPcs
    <2>3. QED
      BY <2>2
  <1>2. CASE Drop
    <2>1. disp'.scheduled = disp.scheduled /\ disp'.dropped = disp.dropped + 1
      BY <1>2 DEF Drop, CountDropped, AccountInv, TypeOK, DispatchCounts
    <2>2. Gate!Drop
      BY <1>0, <1>2, <2>1 DEF Drop, Saturated, Gate!Drop, chanVars, ClosedPcs
    <2>3. QED
      BY <2>2
  <1>3. ASSUME NEW w \in Workers, NEW o \in Outcomes, FinishRequest(w, o)
        PROVE  Gate!Finish
    <2>1. UNCHANGED <<disp, closed, pc>> /\ inFlight' = inFlight - 1 /\ wpc[w] = "exec"
      BY <1>3 DEF FinishRequest, chanVars
    <2>2. pc \notin {"complete", "merge", "returned", "start"}
      BY <2>1 DEF AccountInv, WorkersLeave, WorkersDone
    <2>3. Executing # {}
      BY <2>1 DEF Executing
    <2>4. inFlight > 0
      <3>1. Cardinality(Executing) \in Nat \ {0} /\ Len(jobs) \in Nat /\ Reserved \in Nat
        BY <2>3, PoolFacts, FS_EmptySet, LenProperties DEF AccountInv, TypeOK, Reserved
      <3>2. QED
        BY <3>1 DEF AccountInv, InFlightExact
    <2>5. QED
      BY <1>0, <2>1, <2>2, <2>4 DEF Gate!Finish
  <1>4. CASE CloseChannel \/ EnterStageFails
    <2>1. ~closed /\ closed' /\ UNCHANGED <<disp, inFlight>>
      BY <1>0, <1>4 DEF CloseChannel, EnterStageFails, ClosedPcs, countVars
    <2>2. pc # "reserve" /\ pc' \notin {"reserve", "returned"}
      BY <1>4 DEF CloseChannel, EnterStageFails
    <2>3. Gate!Close
      BY <1>0, <2>1, <2>2 DEF Gate!Close
    <2>4. QED
      BY <2>3
  <1>5. CASE Merge \/ ReturnError
    <2>1. /\ closed /\ closed' /\ pc # "returned" /\ pc # "reserve" /\ pc' = "returned"
          /\ UNCHANGED <<disp, inFlight>> /\ WorkersDone
      BY <1>0, <1>5 DEF Merge, ReturnError, ClosedPcs, chanVars, countVars, AccountInv, WorkersLeave
    <2>2. Executing = {} /\ jobs = <<>>
      BY <2>1, WorkersAssumption DEF WorkersDone, Executing, AccountInv, WorkersLeave
    <2>3. Reserved = 0
      BY <1>5 DEF Merge, ReturnError, Reserved
    <2>4. inFlight = 0
      BY <2>2, <2>3, FS_EmptySet DEF AccountInv, InFlightExact
    <2>5. Gate!End
      BY <1>0, <2>1, <2>4 DEF Gate!End
    <2>6. QED
      BY <2>5
  <1>6. ASSUME UNCHANGED <<disp, closed>>,
               \/ UNCHANGED inFlight /\ (pc' = "reserve" <=> pc = "reserve")
               \/ inFlight' = inFlight + 1 /\ pc = "reserve" /\ pc' # "reserve",
               closed => (pc' = "returned" <=> pc = "returned")
        PROVE  UNCHANGED Gate!gateVars
    <2>1. (pc' = "returned" /\ closed') = (pc = "returned" /\ closed)
      BY <1>0, <1>6
    <2>2. disp'.scheduled - inFlight' - (IF pc' = "reserve" THEN 1 ELSE 0)
            = disp.scheduled - inFlight - (IF pc = "reserve" THEN 1 ELSE 0)
      <3>1. CASE UNCHANGED inFlight /\ (pc' = "reserve" <=> pc = "reserve")
        BY <1>0, <1>6, <3>1
      <3>2. CASE inFlight' = inFlight + 1 /\ pc = "reserve" /\ pc' # "reserve"
        BY <1>0, <1>6, <3>2
      <3>3. QED
        BY <1>6, <3>1, <3>2
    <2>3. QED
      BY <1>6, <2>1, <2>2
  <1>7. CASE Elsewhere /\ ~Admit /\ ~Drop /\ ~CloseChannel /\ ~EnterStageFails /\ ~Merge
             /\ ~ReturnError /\ ~PlanTick
    <2>1. UNCHANGED <<disp, closed, inFlight>> /\ (pc' = "reserve" <=> pc = "reserve")
      BY <1>7
        DEF Elsewhere, Tick, CancelContext, StartFails, ReadClock, PollContext, PaceTimerFires,
            CanceledWhileWaiting, EndedWhileWaiting, EnterNextSegment, StopScheduling,
            DrainedInTime, GraceExpires, CanceledWhileDraining, AwaitWorkers, Complete,
            chanVars, countVars
    <2>2. closed => (pc' = "returned" <=> pc = "returned")
      BY <1>0, <1>7
        DEF Elsewhere, Tick, CancelContext, StartFails, ReadClock, PollContext, PaceTimerFires,
            CanceledWhileWaiting, EndedWhileWaiting, EnterNextSegment, StopScheduling,
            DrainedInTime, GraceExpires, CanceledWhileDraining, AwaitWorkers, Complete, ClosedPcs
    <2>3. QED
      BY <1>0, <1>6, <2>1, <2>2
  <1>8. CASE PlanTick
    <2>1. disp'.scheduled = disp.scheduled /\ disp'.dropped = disp.dropped
      BY <1>8 DEF PlanTick, CountPlanned, AccountInv, TypeOK, DispatchCounts
    <2>2. QED
      BY <1>0, <1>8, <2>1 DEF PlanTick, chanVars
  <1>9. CASE Start \/ Reserve \/ RecordPeak \/ Send
    BY <1>0, <1>6, <1>9 DEF Start, Reserve, RecordPeak, Send, chanVars, countVars
  <1>10. ASSUME NEW w \in Workers, Receive(w) \/ Record(w) \/ LeaveLoop(w) \/ Done(w)
         PROVE  UNCHANGED Gate!gateVars
    BY <1>0, <1>6, <1>10 DEF Receive, Record, LeaveLoop, Done, chanVars, countVars
  <1>11. CASE UNCHANGED vars
    BY <1>0, <1>6, <1>11 DEF vars, chanVars, countVars
  <1>12. QED
    BY <1>1, <1>2, <1>3, <1>4, <1>5, <1>7, <1>8, <1>9, <1>10, <1>11, NextCases

\* The open scheduler refines the admission gate, for every pool and profile: it
\* admits below max_in_flight, drops exactly at it, and ends a run only when
\* every admitted request has finished.
THEOREM Refinement == Spec => ImplementsGate
  <1>1. Init => Gate!Init
    BY DEF Init, Gate!Init, NoDispatch
  <1>2. AccountInv /\ [Next]_vars => [Gate!Next]_(Gate!gateVars)
    BY GateStep
  <1>3. QED
    BY <1>1, <1>2, Accounting, PTL DEF Spec, ImplementsGate, Gate!Spec

-----------------------------------------------------------------------------
(* Cancellation: what the dispatcher may still admit.                       *)

\* Before the context is canceled nothing is late, and once something is, the
\* dispatcher cannot get back to a saturation check without polling the context.
LateInv ==
    /\ lateAdmits <= 1
    /\ ~ctxDone \/ pc \in {"wait", "stamp", "admit"} => lateAdmits = 0

\* A late admission leads back to the context check, and from there to the end.
LEMMA LateStep ==
    ASSUME TypeOK, LateInv, [Next]_vars
    PROVE  LateInv'
  <1> USE DEF TypeOK, LateInv, ctxVars, countVars
  <1>1. CASE Dispatcher
    BY <1>1 DEF Dispatcher, Start, StartFails, ReadClock, PollContext,
         PaceTimerFires, CanceledWhileWaiting, EndedWhileWaiting, PlanTick, Drop, Admit,
         Reserve, RecordPeak, Send, EnterNextSegment, EnterStageFails, ReturnError, CloseChannel,
         StopScheduling, DrainedInTime, GraceExpires, CanceledWhileDraining, AwaitWorkers, Complete,
         Merge
  <1>2. ASSUME NEW w \in Workers, WorkerStep(w) \/ \E o \in Outcomes : FinishRequest(w, o)
        PROVE  LateInv'
    BY <1>2 DEF WorkerStep, Receive, Record, LeaveLoop, Done, FinishRequest
  <1>3. CASE Tick \/ CancelContext \/ UNCHANGED vars
    BY <1>3 DEF Tick, CancelContext, vars
  <1>4. QED
    BY <1>1, <1>2, <1>3 DEF Next, Terminated

\* However the cancellation falls between the dispatcher's steps, at most one
\* request is admitted after it.
THEOREM CancelStopsDispatch == Spec => []AtMostOneLateAdmit
  <1>1. Init => LateInv
    BY DEF Init, LateInv
  <1>2. AccountInv /\ LateInv /\ [Next]_vars => LateInv'
    BY LateStep DEF AccountInv
  <1>3. LateInv => AtMostOneLateAdmit
    BY DEF LateInv, AtMostOneLateAdmit
  <1>4. QED
    BY <1>1, <1>2, <1>3, Accounting, PTL DEF Spec

-----------------------------------------------------------------------------
(* The lifecycle and the segment a request is accounted to.                 *)

TrafficPcs ==
    {"loop", "poll", "wait", "stamp", "admit", "reserve", "peak", "send", "next", "close"}

\* The lifecycle state is a function of where the dispatcher is, and the offset
\* of a tick on its way to the channel lies in the segment being scheduled.
LifecycleInv ==
    /\ pc \in TrafficPcs => lifecycle = StageState(profile[seg].stage)
    /\ pc = "stop" => lifecycle \in {"warmup", "running", "cooldown"}
    /\ pc \in {"drain", "awaitCanceled"} => lifecycle = "graceful_stop"
    /\ pc \in {"await", "complete"} => lifecycle \in {"graceful_stop", "canceled"}
    /\ pc \in {"admit", "reserve", "peak", "send"} =>
           profile[seg].start <= offset /\ offset < profile[seg].end

\* Each stage's lifecycle state may be left for graceful_stop or canceled, those
\* for completed, and graceful_stop for canceled.
LEMMA EndingTransitions ==
    /\ \A stage \in Stages : StageState(stage) \in {"warmup", "running", "cooldown"}
    /\ \A state \in {"warmup", "running", "cooldown"} :
           /\ TransitionTo(state, "graceful_stop") = "graceful_stop"
           /\ TransitionTo(state, "canceled") = "canceled"
    /\ TransitionTo("graceful_stop", "canceled") = "canceled"
    /\ TransitionTo("graceful_stop", "completed") = "completed"
    /\ TransitionTo("canceled", "completed") = "completed"
  BY DEF Stages, StageState, TransitionTo, CanTransitionTo, Successors

\* A planned tick's offset lies in its segment: the target is not before the
\* segment, and the clock, already at the target, is still before its end.
LEMMA PlannedInSegment ==
    ASSUME TypeOK, PaceInv, PlanTick
    PROVE  profile[seg].start <= offset' /\ offset' < profile[seg].end
  <1>1. /\ profile[seg].start \in Nat /\ profile[seg].end \in Nat /\ Interval \in Nat
        /\ Len(stamps) \in Nat /\ nextTick \in Nat /\ now \in Nat
    BY ProfileFacts, LenProperties DEF TypeOK, Interval
  <1>2. Len(stamps) * Interval \in Nat
    BY <1>1
  <1>3. nextTick >= profile[seg].start
    BY <1>1, <1>2 DEF PaceInv, TargetAhead
  <1>4. now >= nextTick /\ now < profile[seg].end
    BY <1>1 DEF PlanTick, SegmentOver, PaceInv, TimerNotEarly
  <1>5. QED
    BY <1>1, <1>3, <1>4 DEF PlanTick

\* Every step of the dispatcher leaves the lifecycle where the dispatcher is.
LEMMA LifecycleStep ==
    ASSUME TypeOK, PaceInv, LifecycleInv, [Next]_vars
    PROVE  LifecycleInv'
  <1>0. /\ profile[seg].stage \in Stages /\ DOMAIN profile = 1 .. Len(profile)
        /\ Len(profile) \in Nat
    BY ProfileFacts DEF TypeOK
  <1>s. StageState(profile[seg].stage) \in {"warmup", "running", "cooldown"}
    BY <1>0, EndingTransitions
  <1>1. CASE Start
    BY <1>1, ProfileFacts DEF Start, LifecycleInv, TrafficPcs, PaceInv, TimerNotEarly
  <1>2. CASE PlanTick
    BY <1>2, PlannedInSegment DEF PlanTick, LifecycleInv, TrafficPcs, ctxVars
  <1>3. CASE EnterNextSegment
    BY <1>3 DEF EnterNextSegment, StageChanges, LifecycleInv, TrafficPcs
  <1>4. CASE CloseChannel
    BY <1>4, <1>s DEF CloseChannel, LifecycleInv, TrafficPcs, ctxVars, paceVars
  <1>5. CASE StopScheduling
    BY <1>5, EndingTransitions DEF StopScheduling, LifecycleInv, TrafficPcs
  <1>6. CASE AwaitWorkers \/ Complete
    BY <1>6, EndingTransitions DEF AwaitWorkers, Complete, LifecycleInv, TrafficPcs
  <1>7. CASE Dispatcher /\ ~Start /\ ~PlanTick /\ ~EnterNextSegment /\ ~CloseChannel
             /\ ~StopScheduling /\ ~AwaitWorkers /\ ~Complete
    BY <1>7 DEF LifecycleInv, TrafficPcs, ctxVars, paceVars, Dispatcher, StartFails, ReadClock,
         PollContext, PaceTimerFires, CanceledWhileWaiting, EndedWhileWaiting, Drop, Admit,
         Reserve, RecordPeak, Send, EnterStageFails, ReturnError, DrainedInTime, GraceExpires,
         CanceledWhileDraining, Merge
  <1>8. ASSUME NEW w \in Workers, WorkerStep(w) \/ \E o \in Outcomes : FinishRequest(w, o)
        PROVE  LifecycleInv'
    BY <1>8 DEF WorkerStep, Receive, Record, LeaveLoop, Done, FinishRequest, LifecycleInv,
         ctxVars, paceVars
  <1>9. CASE Tick \/ CancelContext \/ UNCHANGED vars
    BY <1>9 DEF Tick, CancelContext, vars, LifecycleInv, ctxVars, paceVars
  <1>10. QED
    BY <1>1, <1>2, <1>3, <1>4, <1>5, <1>6, <1>7, <1>8, <1>9 DEF Next, Terminated

\* A request is handed over in the stage and the segment it is accounted to, and
\* the transitions at the end of Run, whose errors it ignores, all succeed.
THEOREM LifecycleIsTrue == Spec => LifecycleFollowsTheRun
  <1> DEFINE Follows ==
        /\ Len(jobs') > Len(jobs) =>
             /\ lifecycle = StageState(profile[seg].stage)
             /\ profile[seg].start <= offset /\ offset < profile[seg].end
        /\ pc \in {"stop", "awaitCanceled", "complete"} /\ pc' # pc => lifecycle' # lifecycle
  <1>1. Init => LifecycleInv
    BY DEF Init, LifecycleInv, TrafficPcs
  <1>2. AccountInv /\ PaceInv /\ LifecycleInv /\ [Next]_vars => LifecycleInv'
    BY LifecycleStep DEF AccountInv
  <1>3. TypeOK /\ LifecycleInv /\ [Next]_vars => Follows
    <2> SUFFICES ASSUME TypeOK, LifecycleInv, [Next]_vars PROVE Follows
      OBVIOUS
    <2>1. Len(jobs') > Len(jobs) => Send
      <3>1. CASE UNCHANGED jobs
        BY <3>1, LenProperties DEF TypeOK
      <3>2. ASSUME NEW w \in Workers, Receive(w) PROVE ~(Len(jobs') > Len(jobs))
        <4>1. Len(jobs') = Len(jobs) - 1 /\ Len(jobs) \in Nat
          BY <3>2, HeadTailProperties, LenProperties DEF Receive, TypeOK
        <4>2. QED
          BY <4>1
      <3>3. QED
        BY <3>1, <3>2, NextCases, ElsewhereKeepsCounters
          DEF Start, Reserve, RecordPeak, FinishRequest, Record, LeaveLoop, Done, vars, chanVars
    <2>2. Send => /\ lifecycle = StageState(profile[seg].stage)
                  /\ profile[seg].start <= offset /\ offset < profile[seg].end
      BY DEF Send, LifecycleInv, TrafficPcs
    <2>3. pc \in {"stop", "awaitCanceled", "complete"} /\ pc' # pc =>
              StopScheduling \/ AwaitWorkers \/ Complete
      BY DEF Next, Terminated, WorkerStep, Receive, Record, LeaveLoop, Done, FinishRequest, Tick,
           CancelContext, vars, Dispatcher, Start, StartFails, ReadClock, PollContext,
           PaceTimerFires, CanceledWhileWaiting, EndedWhileWaiting, PlanTick, Drop, Admit,
           Reserve, RecordPeak, Send, EnterNextSegment, EnterStageFails, ReturnError, CloseChannel,
           StopScheduling, DrainedInTime, GraceExpires, CanceledWhileDraining, AwaitWorkers, Complete,
           Merge
    <2>4. StopScheduling \/ (AwaitWorkers /\ pc = "awaitCanceled") \/ Complete =>
              lifecycle' # lifecycle
      BY EndingTransitions DEF StopScheduling, AwaitWorkers, Complete, LifecycleInv
    <2>5. StopScheduling => pc = "stop"
      BY DEF StopScheduling
    <2>6. AwaitWorkers => pc \in {"await", "awaitCanceled"}
      BY DEF AwaitWorkers
    <2>7. QED
      BY <2>1, <2>2, <2>3, <2>4, <2>5, <2>6
  <1>4. QED
    BY <1>1, <1>2, <1>3, Accounting, Pacing, PTL DEF Spec, AccountInv, LifecycleFollowsTheRun

-----------------------------------------------------------------------------
(* The first throttled offset of a segment.                                 *)

\* Worker w holds metrics that it has not flushed.
Active(w) == wpc[w] \in {"idle", "exec", "record"}

\* The offsets throttled in segment s, of a set of <<segment, offset>> pairs.
Hits(pairs, s) == {h[2] : h \in {t \in pairs : t[1] = s}}

\* What is recorded as first throttle was throttled, and every throttled offset
\* is at or after one recorded for its segment, in the collector or by a worker
\* that will still flush it there.
ThrottleInv ==
    /\ throttled \subseteq (DOMAIN profile) \X Nat
    /\ \A w \in Workers :
           /\ wpc[w] \in {"exec", "record"} => job[w].segment = wseg[w] /\ wseg[w] # 0
           /\ Active(w) /\ current[w].firstThrottle # -1 =>
                  wseg[w] # 0 /\ current[w].firstThrottle \in Hits(throttled, wseg[w])
           /\ Active(w) /\ wseg[w] = 0 => current[w] = NoCounts
    /\ \A s \in DOMAIN profile :
           /\ collected[s].firstThrottle # -1 => collected[s].firstThrottle \in Hits(throttled, s)
           /\ \A h \in Hits(throttled, s) :
                  \/ collected[s].firstThrottle # -1 /\ collected[s].firstThrottle <= h
                  \/ \E w \in Workers : /\ Active(w) /\ wseg[w] = s
                                        /\ current[w].firstThrottle # -1
                                        /\ current[w].firstThrottle <= h

\* Until Run launches them the workers have nothing to report, a refused stage is
\* an error, and what Run returned is what the counters still are.
MergedInv ==
    /\ pc = "awaitErr" => runErr
    /\ pc = "start" => \A w \in Workers : current[w] = NoCounts /\ wseg[w] = 0
    /\ pc = "returned" /\ ~runErr =>
           result = [overall  |-> Report(disp, AllWorkers),
                     segments |-> [s \in DOMAIN profile |-> Report(segDisp[s], collected[s])]]

\* A merge of two first-throttle offsets is one of them, and none later than
\* either; -1 stands for none.
LEMMA FirstThrottleFacts ==
    ASSUME NEW d \in Nat \cup {-1}, NEW c \in Nat \cup {-1}
    PROVE  /\ FirstThrottle(d, c) \in {d, c}
           /\ d # -1 => FirstThrottle(d, c) # -1 /\ FirstThrottle(d, c) <= d
           /\ c # -1 => FirstThrottle(d, c) # -1 /\ FirstThrottle(d, c) <= c
  BY DEF FirstThrottle

\* The steps that touch nothing a worker counts.
LEMMA CountsKept ==
    ASSUME Elsewhere \/ Reserve \/ RecordPeak \/ Send \/ UNCHANGED vars
    PROVE  UNCHANGED <<profile, wpc, job, wseg, outcome, overall, current, collected, throttled>>
  BY DEF Elsewhere, Tick, CancelContext, StartFails, ReadClock, PollContext, PaceTimerFires,
         CanceledWhileWaiting, EndedWhileWaiting, PlanTick, Drop, Admit, EnterNextSegment,
         EnterStageFails, ReturnError, CloseChannel, StopScheduling, DrainedInTime, GraceExpires,
         CanceledWhileDraining, AwaitWorkers, Complete, Merge, Reserve, RecordPeak, Send, vars,
         paceVars, workerVars

\* No worker starts over before Run does, and what Run returned is final.
LEMMA MergedStep ==
    ASSUME AccountInv, MergedInv, [Next]_vars
    PROVE  MergedInv'
  <1>1. CASE pc = "returned"
    <2>1. \A w \in Workers : wpc[w] = "done"
      BY <1>1 DEF AccountInv, WorkersLeave, WorkersDone
    <2>2. UNCHANGED vars
      BY <1>1, <2>1 DEF Next, Terminated, WorkerStep, Receive, Record, LeaveLoop, Done,
           FinishRequest, Tick, CancelContext, Dispatcher, Start, StartFails, ReadClock,
           PollContext, PaceTimerFires, CanceledWhileWaiting, EndedWhileWaiting, PlanTick, Drop,
           Admit, Reserve, RecordPeak, Send, EnterNextSegment, EnterStageFails, ReturnError,
           CloseChannel, StopScheduling, DrainedInTime, GraceExpires, CanceledWhileDraining,
           AwaitWorkers, Complete, Merge
    <2>3. UNCHANGED <<pc, runErr, result, disp, overall, profile, segDisp, collected, current, wseg>>
      BY <2>2 DEF vars, paceVars, countVars, workerVars, endVars
    <2>4. QED
      BY <1>1, <2>3 DEF MergedInv, AllWorkers, Total
  <1>2. CASE pc # "returned" /\ Merge
    <2>1. UNCHANGED <<disp, overall, profile, segDisp, collected>> /\ pc' = "returned"
          /\ result' = [overall  |-> Report(disp, AllWorkers),
                        segments |-> [s \in DOMAIN profile |-> Report(segDisp[s], collected[s])]]
      BY <1>2 DEF Merge, paceVars, countVars, workerVars
    <2>2. AllWorkers' = AllWorkers
      BY <2>1 DEF AllWorkers, Total
    <2>3. QED
      BY <2>1, <2>2 DEF MergedInv
  <1>3. CASE pc # "returned" /\ ~Merge
    <2>1. ~(pc' = "returned" /\ ~runErr')
      <3>1. ReturnError => runErr'
        BY DEF ReturnError, MergedInv, endVars
      <3>2. QED
        BY <1>3, <3>1 DEF Next, Terminated, WorkerStep, Receive, Record, LeaveLoop, Done,
           FinishRequest, Tick, CancelContext, Dispatcher, Start, StartFails, ReadClock,
           PollContext, PaceTimerFires, CanceledWhileWaiting, EndedWhileWaiting, PlanTick, Drop,
           Admit, Reserve, RecordPeak, Send, EnterNextSegment, EnterStageFails,
           CloseChannel, StopScheduling, DrainedInTime, GraceExpires, CanceledWhileDraining,
           AwaitWorkers, Complete, vars
    <2>2. pc' = "start" => UNCHANGED <<current, wseg>> /\ pc = "start"
      <3>1. pc' = "start" => pc = "start"
        BY <1>3 DEF Next, Terminated, WorkerStep, Receive, Record, LeaveLoop, Done,
           FinishRequest, Tick, CancelContext, Dispatcher, Start, StartFails, ReadClock,
           PollContext, PaceTimerFires, CanceledWhileWaiting, EndedWhileWaiting, PlanTick, Drop,
           Admit, Reserve, RecordPeak, Send, EnterNextSegment, EnterStageFails, ReturnError,
           CloseChannel, StopScheduling, DrainedInTime, GraceExpires, CanceledWhileDraining,
           AwaitWorkers, Complete, vars
      <3>2. pc = "start" => \A w \in Workers : wpc[w] = "done"
        BY DEF AccountInv, WorkersLeave, WorkersDone
      <3>3. QED
        BY <3>1, <3>2, NextCases, CountsKept DEF Start, Receive, Record, LeaveLoop, Done, FinishRequest
    <2>3. pc' = "awaitErr" => runErr'
      BY <1>3 DEF MergedInv, Next, Terminated, WorkerStep, Receive, Record, LeaveLoop, Done,
         FinishRequest, Tick, CancelContext, Dispatcher, Start, StartFails, ReadClock,
         PollContext, PaceTimerFires, CanceledWhileWaiting, EndedWhileWaiting, PlanTick, Drop,
         Admit, Reserve, RecordPeak, Send, EnterNextSegment, EnterStageFails, ReturnError,
         CloseChannel, StopScheduling, DrainedInTime, GraceExpires, CanceledWhileDraining,
         AwaitWorkers, Complete, vars, endVars
    <2>4. QED
      BY <2>1, <2>2, <2>3 DEF MergedInv
  <1>4. QED
    BY <1>1, <1>2, <1>3

\* Worker u keeps what it has recorded.
KeepsThrottle(u) ==
    /\ Active(u)' <=> Active(u)
    /\ wseg'[u] = wseg[u]
    /\ current'[u].firstThrottle = current[u].firstThrottle

\* A flush hands what worker w recorded over to the collector: the segment's
\* first throttle is not later than before, nor than the worker's.
LEMMA FlushKeepsThrottle ==
    ASSUME TypeOK, ThrottleInv, NEW w \in Workers, Active(w), collected' = Flushed(w),
           UNCHANGED <<throttled, profile>>, \A u \in Workers \ {w} : KeepsThrottle(u)
    PROVE  \A s \in DOMAIN profile :
             /\ collected'[s].firstThrottle # -1 => collected'[s].firstThrottle \in Hits(throttled, s)
             /\ \A h \in Hits(throttled, s) :
                  \/ collected'[s].firstThrottle # -1 /\ collected'[s].firstThrottle <= h
                  \/ \E u \in Workers \ {w} : /\ Active(u)' /\ wseg'[u] = s
                                              /\ current'[u].firstThrottle # -1
                                              /\ current'[u].firstThrottle <= h
  <1> SUFFICES ASSUME NEW s \in DOMAIN profile
               PROVE  /\ collected'[s].firstThrottle # -1 => collected'[s].firstThrottle \in Hits(throttled, s)
                      /\ \A h \in Hits(throttled, s) :
                           \/ collected'[s].firstThrottle # -1 /\ collected'[s].firstThrottle <= h
                           \/ \E u \in Workers \ {w} : /\ Active(u)' /\ wseg'[u] = s
                                                       /\ current'[u].firstThrottle # -1
                                                       /\ current'[u].firstThrottle <= h
    OBVIOUS
  <1> DEFINE c == collected[s].firstThrottle
             t == current[w].firstThrottle
  <1>1. /\ c \in Nat \cup {-1} /\ t \in Nat \cup {-1} /\ Hits(throttled, s) \subseteq Nat
    BY DEF TypeOK, Counts, Hits, ThrottleInv
  <1>2. /\ c # -1 => c \in Hits(throttled, s)
        /\ t # -1 => wseg[w] # 0 /\ t \in Hits(throttled, wseg[w])
        /\ \A h \in Hits(throttled, s) :
              \/ c # -1 /\ c <= h
              \/ \E u \in Workers : /\ Active(u) /\ wseg[u] = s
                                    /\ current[u].firstThrottle # -1
                                    /\ current[u].firstThrottle <= h
    BY DEF ThrottleInv
  <1>3. CASE wseg[w] = s
    <2>1. collected'[s].firstThrottle = FirstThrottle(c, t)
      <3>1. 0 \notin DOMAIN profile
        BY ProfileFacts DEF TypeOK
      <3>2. collected'[s] = MergeCounts(collected[s], current[w])
        BY <1>3, <3>1 DEF Flushed, TypeOK
      <3>3. QED
        BY <3>2 DEF MergeCounts
    <2> DEFINE r == FirstThrottle(c, t)
    <2>2. /\ r \in {c, t}
          /\ c # -1 => r # -1 /\ r <= c
          /\ t # -1 => r # -1 /\ r <= t
      BY <1>1, FirstThrottleFacts
    <2> HIDE DEF r
    <2>3. r # -1 => r \in Hits(throttled, s)
      BY <1>2, <1>3, <2>2
    <2>4. ASSUME NEW h \in Hits(throttled, s)
          PROVE  \/ r # -1 /\ r <= h
                 \/ \E u \in Workers \ {w} : /\ Active(u)' /\ wseg'[u] = s
                                             /\ current'[u].firstThrottle # -1
                                             /\ current'[u].firstThrottle <= h
      <3>1. CASE c # -1 /\ c <= h
        BY <1>1, <2>2, <3>1
      <3>2. CASE t # -1 /\ t <= h
        BY <1>1, <2>2, <3>2
      <3>3. ASSUME NEW u \in Workers \ {w}, Active(u), wseg[u] = s,
                   current[u].firstThrottle # -1, current[u].firstThrottle <= h
            PROVE  \E v \in Workers \ {w} : /\ Active(v)' /\ wseg'[v] = s
                                            /\ current'[v].firstThrottle # -1
                                            /\ current'[v].firstThrottle <= h
        BY <3>3 DEF KeepsThrottle
      <3>4. QED
        BY <1>2, <3>1, <3>2, <3>3
    <2>5. QED
      BY <2>1, <2>3, <2>4 DEF r
  <1>4. CASE wseg[w] # s
    <2>1. collected'[s] = collected[s]
      BY <1>4 DEF Flushed, TypeOK
    <2>2. ASSUME NEW h \in Hits(throttled, s)
          PROVE  \/ c # -1 /\ c <= h
                 \/ \E u \in Workers \ {w} : /\ Active(u)' /\ wseg'[u] = s
                                             /\ current'[u].firstThrottle # -1
                                             /\ current'[u].firstThrottle <= h
      BY <1>2, <1>4 DEF KeepsThrottle
    <2>3. QED
      BY <1>2, <2>1, <2>2
  <1>5. QED
    BY <1>3, <1>4

\* Throttled offsets are of segments of the profile, and only grow in number.
LEMMA HitsFacts ==
    ASSUME ThrottleInv, NEW s
    PROVE  /\ Hits(throttled, s) \subseteq Nat
           /\ throttled \subseteq throttled' => Hits(throttled, s) \subseteq Hits(throttled', s)
  BY DEF ThrottleInv, Hits

\* Every step keeps the record of the throttled offsets.
LEMMA ThrottleStep ==
    ASSUME AccountInv, MergedInv, ThrottleInv, [Next]_vars
    PROVE  ThrottleInv'
  <1>0. TypeOK /\ TypeOK'
    BY TypeStep DEF AccountInv
  <1>1. CASE Elsewhere \/ Reserve \/ RecordPeak \/ Send \/ UNCHANGED vars
    BY <1>1, CountsKept DEF ThrottleInv, Active, Hits
  <1>2. CASE Start
    <2>1. /\ \A w \in Workers : ~Active(w) /\ current[w] = NoCounts /\ wseg[w] = 0
          /\ NoCounts.firstThrottle = -1
      BY <1>2 DEF Start, AccountInv, WorkersLeave, WorkersDone, MergedInv, Active, NoCounts
    <2>2. UNCHANGED <<profile, wseg, current, collected, throttled>>
      BY <1>2 DEF Start
    <2>3. \A w \in Workers : wpc'[w] = "idle"
      BY <1>2 DEF Start
    <2>4. QED
      BY <2>1, <2>2, <2>3 DEF ThrottleInv, Hits
  <1>3. ASSUME NEW w \in Workers, Receive(w)
        PROVE  ThrottleInv'
    <2> DEFINE j == Head(jobs)
    <2>1. /\ j.segment \in DOMAIN profile /\ j.segment # 0
          /\ UNCHANGED <<throttled, profile>> /\ Active(w)
      <3>1. j \in [segment : DOMAIN profile, offset : Nat]
        BY <1>0, <1>3, HeadTailProperties DEF Receive, TypeOK
      <3>2. 0 \notin DOMAIN profile
        BY <1>0, ProfileFacts DEF TypeOK
      <3>3. UNCHANGED <<throttled, profile>> /\ Active(w)
        BY <1>3 DEF Receive, paceVars, Active
      <3> HIDE DEF j
      <3>4. QED
        BY <3>1, <3>2, <3>3
    <2>2. /\ wpc'[w] = "exec" /\ job'[w] = j /\ wseg'[w] = j.segment /\ Active(w)'
      BY <1>0, <1>3 DEF Receive, TypeOK, Active
    <2>3. \A u \in Workers \ {w} :
              /\ wpc'[u] = wpc[u] /\ job'[u] = job[u] /\ wseg'[u] = wseg[u]
              /\ current'[u] = current[u] /\ Active(u)' = Active(u)
      BY <1>0, <1>3 DEF Receive, TypeOK, Active
    <2>4. \A s : Hits(throttled', s) = Hits(throttled, s)
      BY <2>1 DEF Hits
    <2>5. CASE j.segment = wseg[w]
      <3>1. collected' = collected
        BY <1>3, <2>5 DEF Receive
      <3>2. current'[w].firstThrottle = current[w].firstThrottle
        BY <1>0, <1>3, <2>5 DEF Receive, CountStarted, TypeOK, Counts
      <3>3. \A u \in Workers : KeepsThrottle(u)
        BY <2>1, <2>2, <2>3, <2>5, <3>2 DEF KeepsThrottle
      <3>4. \A u \in Workers :
               /\ wpc'[u] \in {"exec", "record"} => job'[u].segment = wseg'[u] /\ wseg'[u] # 0
               /\ Active(u)' /\ current'[u].firstThrottle # -1 =>
                      wseg'[u] # 0 /\ current'[u].firstThrottle \in Hits(throttled', wseg'[u])
               /\ Active(u)' /\ wseg'[u] = 0 => current'[u] = NoCounts
        BY <2>1, <2>2, <2>3, <2>4, <3>3 DEF ThrottleInv, KeepsThrottle
      <3>5. QED
        BY <2>1, <2>4, <3>1, <3>3, <3>4 DEF ThrottleInv, KeepsThrottle
    <2>6. CASE j.segment # wseg[w]
      <3>1. collected' = Flushed(w)
        BY <1>3, <2>6 DEF Receive
      <3>2. current'[w].firstThrottle = -1
        BY <1>0, <1>3, <2>6 DEF Receive, CountStarted, NoCounts, TypeOK
      <3>3. \A u \in Workers \ {w} : KeepsThrottle(u)
        BY <2>3 DEF KeepsThrottle
      <3>4. \A u \in Workers :
               /\ wpc'[u] \in {"exec", "record"} => job'[u].segment = wseg'[u] /\ wseg'[u] # 0
               /\ Active(u)' /\ current'[u].firstThrottle # -1 =>
                      wseg'[u] # 0 /\ current'[u].firstThrottle \in Hits(throttled', wseg'[u])
               /\ Active(u)' /\ wseg'[u] = 0 => current'[u] = NoCounts
        BY <2>1, <2>2, <2>3, <2>4, <3>2 DEF ThrottleInv
      <3>5. \A s \in DOMAIN profile :
             /\ collected'[s].firstThrottle # -1 => collected'[s].firstThrottle \in Hits(throttled, s)
             /\ \A h \in Hits(throttled, s) :
                  \/ collected'[s].firstThrottle # -1 /\ collected'[s].firstThrottle <= h
                  \/ \E u \in Workers : /\ Active(u)' /\ wseg'[u] = s
                                        /\ current'[u].firstThrottle # -1
                                        /\ current'[u].firstThrottle <= h
        BY <1>0, <2>1, <3>1, <3>3, FlushKeepsThrottle
      <3>6. QED
        BY <2>1, <2>4, <3>4, <3>5 DEF ThrottleInv
    <2>7. QED
      BY <2>5, <2>6
  <1>4. ASSUME NEW w \in Workers, NEW o \in Outcomes, FinishRequest(w, o)
        PROVE  ThrottleInv'
    <2>1. UNCHANGED <<profile, job, wseg, current, collected, throttled>>
      BY <1>4 DEF FinishRequest, paceVars
    <2>2. \A u \in Workers : /\ Active(u)' = Active(u)
                             /\ wpc'[u] \in {"exec", "record"} => wpc[u] \in {"exec", "record"}
      BY <1>0, <1>4 DEF FinishRequest, TypeOK, Active
    <2>3. QED
      BY <2>1, <2>2 DEF ThrottleInv, Hits
  <1>5. ASSUME NEW w \in Workers, Record(w)
        PROVE  ThrottleInv'
    <2>1. /\ UNCHANGED <<profile, job, wseg, collected>> /\ wpc[w] = "record" /\ wpc'[w] = "idle"
          /\ Active(w) /\ Active(w)'
      BY <1>0, <1>5 DEF Record, paceVars, TypeOK, Active
    <2>2. \A u \in Workers \ {w} :
              wpc'[u] = wpc[u] /\ current'[u] = current[u] /\ Active(u)' = Active(u)
      BY <1>0, <1>5 DEF Record, TypeOK, Active
    <2>3. job[w].segment = wseg[w] /\ wseg[w] # 0 /\ wseg[w] \in DOMAIN profile /\ job[w].offset \in Nat
      BY <1>0, <2>1 DEF ThrottleInv, TypeOK, Jobs
    <2>4. CountReturned(current[w], outcome[w]).firstThrottle = current[w].firstThrottle
      BY <1>0 DEF CountReturned, TypeOK, Counts
    <2>5. CASE outcome[w] = "rate_limited"
      <3> DEFINE t == current[w].firstThrottle
                 r == FirstThrottle(t, job[w].offset)
      <3>1. throttled' = throttled \cup {<<wseg[w], job[w].offset>>}
        BY <1>5, <2>3, <2>5 DEF Record
      <3>2. current'[w].firstThrottle = r
        <4>1. current'[w] = NoteThrottle(CountReturned(current[w], outcome[w]), job[w].offset)
          BY <1>0, <1>5, <2>5 DEF Record, TypeOK
        <4>2. CountReturned(current[w], outcome[w]) \in Counts
          BY <1>0, CountTypes DEF TypeOK
        <4>3. QED
          BY <2>4, <4>1, <4>2 DEF NoteThrottle, Counts
      <3>3. t \in Nat \cup {-1}
        BY <1>0 DEF TypeOK, Counts
      <3>4. /\ r \in {t, job[w].offset} /\ r # -1 /\ r <= job[w].offset
            /\ t # -1 => r <= t
        BY <2>3, <3>3, FirstThrottleFacts
      <3> HIDE DEF r
      <3>5. /\ Hits(throttled', wseg[w]) = Hits(throttled, wseg[w]) \cup {job[w].offset}
            /\ \A s : s # wseg[w] => Hits(throttled', s) = Hits(throttled, s)
            /\ \A s : Hits(throttled, s) \subseteq Hits(throttled', s) /\ Hits(throttled, s) \subseteq Nat
        <4> DEFINE new == <<wseg[w], job[w].offset>>
        <4>1. new[1] = wseg[w] /\ new[2] = job[w].offset /\ throttled' = throttled \cup {new}
          BY <3>1
        <4> HIDE DEF new
        <4>2. \A s : Hits(throttled', s) = IF s = wseg[w] THEN Hits(throttled, s) \cup {job[w].offset}
                                           ELSE Hits(throttled, s)
          BY <4>1 DEF Hits
        <4>3. QED
          BY <4>2, HitsFacts
      <3>6. throttled' \subseteq (DOMAIN profile') \X Nat
        BY <2>1, <2>3, <3>1 DEF ThrottleInv
      <3>7. t # -1 => t \in Hits(throttled, wseg[w])
        BY <2>1 DEF ThrottleInv
      <3>8. r \in Hits(throttled', wseg[w])
        BY <3>4, <3>5, <3>7
      <3>9. \A u \in Workers :
               /\ wpc'[u] \in {"exec", "record"} => job'[u].segment = wseg'[u] /\ wseg'[u] # 0
               /\ Active(u)' /\ current'[u].firstThrottle # -1 =>
                      wseg'[u] # 0 /\ current'[u].firstThrottle \in Hits(throttled', wseg'[u])
               /\ Active(u)' /\ wseg'[u] = 0 => current'[u] = NoCounts
        BY <2>1, <2>2, <2>3, <3>2, <3>5, <3>8 DEF ThrottleInv
      <3>10. ASSUME NEW s \in DOMAIN profile, NEW h \in Hits(throttled', s)
             PROVE  \/ collected[s].firstThrottle # -1 /\ collected[s].firstThrottle <= h
                    \/ \E u \in Workers : /\ Active(u)' /\ wseg[u] = s
                                          /\ current'[u].firstThrottle # -1
                                          /\ current'[u].firstThrottle <= h
        <4>1. CASE s = wseg[w] /\ h = job[w].offset
          BY <2>1, <3>2, <3>4, <4>1
        <4>2. CASE h \in Hits(throttled, s)
          <5>1. CASE collected[s].firstThrottle # -1 /\ collected[s].firstThrottle <= h
            BY <5>1
          <5>2. ASSUME NEW u \in Workers, Active(u), wseg[u] = s, current[u].firstThrottle # -1,
                       current[u].firstThrottle <= h
                PROVE  /\ Active(u)' /\ current'[u].firstThrottle # -1
                       /\ current'[u].firstThrottle <= h
            <6>1. CASE u = w
              <7>1. h \in Nat /\ t \in Nat /\ r \in Nat /\ r <= t /\ t <= h
                BY <2>3, <3>3, <3>4, <3>5, <4>2, <5>2, <6>1
              <7>2. QED
                BY <2>1, <3>2, <3>4, <6>1, <7>1
            <6>2. CASE u # w
              BY <2>2, <5>2, <6>2
            <6>3. QED
              BY <6>1, <6>2
          <5>3. QED
            BY <4>2, <5>1, <5>2 DEF ThrottleInv
        <4>3. QED
          BY <3>5, <4>1, <4>2
      <3>11. \A s \in DOMAIN profile :
                collected[s].firstThrottle # -1 => collected[s].firstThrottle \in Hits(throttled', s)
        BY <3>5 DEF ThrottleInv
      <3>12. QED
        BY <2>1, <3>6, <3>9, <3>10, <3>11 DEF ThrottleInv
    <2>6. CASE outcome[w] # "rate_limited"
      <3>1. throttled' = throttled /\ current'[w].firstThrottle = current[w].firstThrottle
        BY <1>0, <1>5, <2>4, <2>6 DEF Record, TypeOK
      <3>2. \A u \in Workers : KeepsThrottle(u)
        BY <2>1, <2>2, <3>1 DEF KeepsThrottle
      <3>3. \A s : Hits(throttled', s) = Hits(throttled, s)
        BY <3>1 DEF Hits
      <3>4. \A u \in Workers :
               /\ wpc'[u] \in {"exec", "record"} => job'[u].segment = wseg'[u] /\ wseg'[u] # 0
               /\ Active(u)' /\ wseg'[u] = 0 => current'[u] = NoCounts
        BY <2>1, <2>2, <2>3 DEF ThrottleInv
      <3>5. QED
        BY <2>1, <3>1, <3>2, <3>3, <3>4 DEF ThrottleInv, KeepsThrottle
    <2>7. QED
      BY <2>5, <2>6
  <1>6. ASSUME NEW w \in Workers, LeaveLoop(w)
        PROVE  ThrottleInv'
    <2>1. /\ UNCHANGED <<throttled, profile, job, wseg, current>> /\ Active(w)
          /\ collected' = Flushed(w) /\ wpc'[w] = "flushed" /\ ~Active(w)'
      BY <1>0, <1>6 DEF LeaveLoop, TypeOK, paceVars, Active
    <2>2. \A u \in Workers \ {w} : wpc'[u] = wpc[u] /\ KeepsThrottle(u)
      BY <1>0, <1>6 DEF LeaveLoop, TypeOK, Active, KeepsThrottle
    <2>3. \A s : Hits(throttled', s) = Hits(throttled, s)
      BY <2>1 DEF Hits
    <2>4. \A s \in DOMAIN profile :
             /\ collected'[s].firstThrottle # -1 => collected'[s].firstThrottle \in Hits(throttled, s)
             /\ \A h \in Hits(throttled, s) :
                  \/ collected'[s].firstThrottle # -1 /\ collected'[s].firstThrottle <= h
                  \/ \E u \in Workers : /\ Active(u)' /\ wseg'[u] = s
                                        /\ current'[u].firstThrottle # -1
                                        /\ current'[u].firstThrottle <= h
      BY <1>0, <2>1, <2>2, FlushKeepsThrottle
    <2>5. \A u \in Workers :
             /\ wpc'[u] \in {"exec", "record"} => job'[u].segment = wseg'[u] /\ wseg'[u] # 0
             /\ Active(u)' /\ current'[u].firstThrottle # -1 =>
                    wseg'[u] # 0 /\ current'[u].firstThrottle \in Hits(throttled', wseg'[u])
             /\ Active(u)' /\ wseg'[u] = 0 => current'[u] = NoCounts
      BY <2>1, <2>2, <2>3 DEF ThrottleInv, KeepsThrottle
    <2>6. QED
      BY <2>1, <2>3, <2>4, <2>5 DEF ThrottleInv
  <1>7. ASSUME NEW w \in Workers, Done(w)
        PROVE  ThrottleInv'
    <2>1. UNCHANGED <<profile, job, wseg, current, collected, throttled>>
      BY <1>7 DEF Done, paceVars
    <2>2. \A u \in Workers : /\ Active(u)' = Active(u)
                             /\ wpc'[u] \in {"exec", "record"} => wpc[u] \in {"exec", "record"}
      BY <1>0, <1>7 DEF Done, TypeOK, Active
    <2>3. QED
      BY <2>1, <2>2 DEF ThrottleInv, Hits
  <1>8. QED
    BY <1>1, <1>2, <1>3, <1>4, <1>5, <1>6, <1>7, NextCases

\* Both invariants hold throughout.
LEMMA Throttling == Spec => [](ThrottleInv /\ MergedInv)
  <1>1. Init => ThrottleInv /\ MergedInv
    <2> SUFFICES ASSUME Init PROVE ThrottleInv /\ MergedInv
      OBVIOUS
    <2>1. \A s \in DOMAIN profile : collected[s].firstThrottle = -1
      BY DEF Init, NoCounts
    <2>2. \A s : Hits(throttled, s) = {}
      BY DEF Init, Hits
    <2>3. \A w \in Workers : ~Active(w) /\ wpc[w] = "done"
      BY DEF Init, Active
    <2>4. throttled \subseteq (DOMAIN profile) \X Nat
      BY DEF Init
    <2>5. ThrottleInv
      BY <2>1, <2>2, <2>3, <2>4 DEF ThrottleInv
    <2>6. MergedInv
      BY DEF Init, MergedInv
    <2>7. QED
      BY <2>5, <2>6
  <1>2. AccountInv /\ MergedInv /\ ThrottleInv /\ [Next]_vars => (ThrottleInv /\ MergedInv)'
    BY ThrottleStep, MergedStep
  <1>3. QED
    BY <1>1, <1>2, Accounting, PTL DEF Spec

\* The first-throttle offset a run reports for a segment is the smallest planned
\* offset answered with 429, for every worker pool and profile and in whatever
\* order workers saw the answers and flushed their metrics (mergeWorkerMetrics,
\* segmentCollector.merge).
THEOREM FirstThrottleIsFirst == Spec => []FirstThrottleIsEarliest
  <1>1. ASSUME AccountInv, ThrottleInv, MergedInv
        PROVE  FirstThrottleIsEarliest
    <2> SUFFICES ASSUME pc = "returned", ~runErr, NEW s \in DOMAIN profile
                 PROVE  result.segments[s].firstThrottle = IF Hits(throttled, s) = {} THEN -1 ELSE Min(Hits(throttled, s))
      BY Zenon DEF FirstThrottleIsEarliest, Hits
    <2> DEFINE c == collected[s].firstThrottle
    <2>1. result.segments[s].firstThrottle = c
      <3>1. result.segments = [i \in DOMAIN profile |-> Report(segDisp[i], collected[i])]
        BY <1>1 DEF MergedInv
      <3>2. QED
        BY <3>1 DEF Report
    <2>2. \A w \in Workers : ~Active(w)
      BY <1>1 DEF AccountInv, WorkersLeave, WorkersDone, Active
    <2>3. /\ c \in Nat \cup {-1} /\ Hits(throttled, s) \subseteq Nat
          /\ c # -1 => c \in Hits(throttled, s)
          /\ \A h \in Hits(throttled, s) : c # -1 /\ c <= h
      <3>1. c \in Nat \cup {-1}
        BY <1>1 DEF AccountInv, TypeOK, Counts
      <3>2. Hits(throttled, s) \subseteq Nat
        BY <1>1, HitsFacts
      <3>3. QED
        BY <1>1, <2>2, <3>1, <3>2 DEF ThrottleInv
    <2>4. Hits(throttled, s) # {} => c = Min(Hits(throttled, s))
      <3> HIDE DEF c
      <3>1. \A x \in Hits(throttled, s) : (\A y \in Hits(throttled, s) : x =< y) => x = c
        BY <2>3
      <3>2. Hits(throttled, s) # {} => c \in Hits(throttled, s) /\ \A y \in Hits(throttled, s) : c =< y
        BY <2>3
      <3>3. QED
        BY <3>1, <3>2 DEF Min
    <2>5. Hits(throttled, s) = {} => c = -1
      BY <2>3
    <2>6. QED
      BY <2>1, <2>4, <2>5
  <1>2. QED
    BY <1>1, Accounting, Throttling, PTL

-----------------------------------------------------------------------------
(* The report: the dispatcher's counters.                                   *)

\* A tick is planned before it is scheduled or dropped, in the run's counters
\* and in its segment's.
PlannedInv ==
    /\ disp.planned = disp.scheduled + disp.dropped + (IF pc = "admit" THEN 1 ELSE 0)
    /\ \A s \in DOMAIN profile :
           segDisp[s].planned = segDisp[s].scheduled + segDisp[s].dropped
               + (IF pc = "admit" /\ seg = s THEN 1 ELSE 0)

\* The segments' counters add up to the run's.
SegmentsAddUp ==
    /\ FieldSum(segDisp, "planned", DOMAIN profile) = disp.planned
    /\ FieldSum(segDisp, "scheduled", DOMAIN profile) = disp.scheduled
    /\ FieldSum(segDisp, "dropped", DOMAIN profile) = disp.dropped

\* What the three counting steps of the dispatcher do to each counter.
LEMMA DispatchCountFacts ==
    ASSUME NEW d \in DispatchCounts
    PROVE  /\ d.planned \in Nat /\ d.scheduled \in Nat /\ d.dropped \in Nat
           /\ CountPlanned(d).planned = d.planned + 1
           /\ CountPlanned(d).scheduled = d.scheduled
           /\ CountPlanned(d).dropped = d.dropped
           /\ CountScheduled(d).planned = d.planned
           /\ CountScheduled(d).scheduled = d.scheduled + 1
           /\ CountScheduled(d).dropped = d.dropped
           /\ CountDropped(d).planned = d.planned
           /\ CountDropped(d).scheduled = d.scheduled
           /\ CountDropped(d).dropped = d.dropped + 1
  BY DEF DispatchCounts, CountPlanned, CountScheduled, CountDropped

\* No other step touches the dispatcher's counters or a tick awaiting admission.
LEMMA DispatchKept ==
    ASSUME [Next]_vars, ~PlanTick, ~Drop, ~Admit
    PROVE  /\ UNCHANGED <<disp, segDisp, profile>>
           /\ pc' = "admit" => pc = "admit"
           /\ pc = "admit" => UNCHANGED <<pc, seg>>
  BY DEF Next, Terminated, WorkerStep, Receive, Record, LeaveLoop, Done,
     FinishRequest, Tick, CancelContext, Dispatcher, Start, StartFails, ReadClock,
     PollContext, PaceTimerFires, CanceledWhileWaiting, EndedWhileWaiting,
     Reserve, RecordPeak, Send, EnterNextSegment, EnterStageFails, ReturnError,
     CloseChannel, StopScheduling, DrainedInTime, GraceExpires, CanceledWhileDraining,
     AwaitWorkers, Complete, Merge, vars, paceVars, countVars

\* The profile has finitely many segments.
LEMMA SegmentsFinite == ASSUME TypeOK PROVE IsFiniteSet(DOMAIN profile)
  BY ProfileFacts, FS_Interval DEF TypeOK

\* Every step keeps the dispatcher's books.
LEMMA DispatchStep ==
    ASSUME TypeOK, PlannedInv, SegmentsAddUp, [Next]_vars
    PROVE  PlannedInv' /\ SegmentsAddUp'
  <1> DEFINE D == DOMAIN profile
  <1>0. /\ disp \in DispatchCounts /\ seg \in D /\ IsFiniteSet(D)
        /\ \A s \in D : segDisp[s] \in DispatchCounts
        /\ DOMAIN segDisp = D
    BY SegmentsFinite DEF TypeOK
  <1>1. /\ \A s \in D : segDisp[s].planned \in Int
        /\ \A s \in D : segDisp[s].scheduled \in Int
        /\ \A s \in D : segDisp[s].dropped \in Int
    BY <1>0, DispatchCountFacts
  <1> HIDE DEF D
  <1>2. CASE PlanTick
    <2>1. /\ disp' = CountPlanned(disp) /\ pc' = "admit" /\ pc = "stamp"
          /\ segDisp' = [segDisp EXCEPT ![seg] = CountPlanned(@)]
          /\ UNCHANGED <<profile, seg>>
      BY <1>2 DEF PlanTick
    <2>2. /\ \A s \in D \ {seg} : segDisp'[s] = segDisp[s]
          /\ segDisp'[seg] = CountPlanned(segDisp[seg])
      BY <1>0, <2>1
    <2>3. /\ disp'.planned = disp.planned + 1
          /\ disp'.scheduled = disp.scheduled /\ disp'.dropped = disp.dropped
          /\ segDisp'[seg].planned = segDisp[seg].planned + 1
          /\ segDisp'[seg].scheduled = segDisp[seg].scheduled
          /\ segDisp'[seg].dropped = segDisp[seg].dropped
      BY <1>0, <2>1, <2>2, DispatchCountFacts
    <2>4. FieldSum(segDisp', "planned", D) = FieldSum(segDisp, "planned", D) + 1
      <3>1. ChangesBy(segDisp, segDisp', "planned", D, seg, 1)
        BY <1>0, <1>1, <2>2, <2>3 DEF ChangesBy
      <3>2. QED
        BY <1>0, <3>1, FieldSumChange
    <2>5. FieldSum(segDisp', "scheduled", D) = FieldSum(segDisp, "scheduled", D)
      BY <1>0, <1>1, <2>2, <2>3, FieldSumSame
    <2>6. FieldSum(segDisp', "dropped", D) = FieldSum(segDisp, "dropped", D)
      BY <1>0, <1>1, <2>2, <2>3, FieldSumSame
    <2>7. SegmentsAddUp'
      BY <2>1, <2>3, <2>4, <2>5, <2>6 DEF SegmentsAddUp, D
    <2>8. PlannedInv'
      <3>1. disp'.planned = disp'.scheduled + disp'.dropped + 1
        BY <1>0, <2>1, <2>3, DispatchCountFacts DEF PlannedInv
      <3>2. ASSUME NEW s \in D
            PROVE  segDisp'[s].planned = segDisp'[s].scheduled + segDisp'[s].dropped
                       + (IF seg = s THEN 1 ELSE 0)
        <4>1. segDisp[s].planned = segDisp[s].scheduled + segDisp[s].dropped
          BY <1>0, <2>1, DispatchCountFacts DEF PlannedInv, D
        <4>2. segDisp[s].scheduled \in Nat /\ segDisp[s].dropped \in Nat
          BY <1>0, DispatchCountFacts
        <4>3. QED
          BY <2>2, <2>3, <4>1, <4>2
      <3>3. QED
        BY <2>1, <3>1, <3>2 DEF PlannedInv, D
    <2>9. QED
      BY <2>7, <2>8
  <1>3. CASE Drop
    <2>1. /\ disp' = CountDropped(disp) /\ pc' = "loop" /\ pc = "admit"
          /\ segDisp' = [segDisp EXCEPT ![seg] = CountDropped(@)]
          /\ UNCHANGED <<profile, seg>>
      BY <1>3 DEF Drop, paceVars
    <2>2. /\ \A s \in D \ {seg} : segDisp'[s] = segDisp[s]
          /\ segDisp'[seg] = CountDropped(segDisp[seg])
      BY <1>0, <2>1
    <2>3. /\ disp'.planned = disp.planned
          /\ disp'.scheduled = disp.scheduled /\ disp'.dropped = disp.dropped + 1
          /\ segDisp'[seg].planned = segDisp[seg].planned
          /\ segDisp'[seg].scheduled = segDisp[seg].scheduled
          /\ segDisp'[seg].dropped = segDisp[seg].dropped + 1
      BY <1>0, <2>1, <2>2, DispatchCountFacts
    <2>4. FieldSum(segDisp', "dropped", D) = FieldSum(segDisp, "dropped", D) + 1
      <3>1. ChangesBy(segDisp, segDisp', "dropped", D, seg, 1)
        BY <1>0, <1>1, <2>2, <2>3 DEF ChangesBy
      <3>2. QED
        BY <1>0, <3>1, FieldSumChange
    <2>5. FieldSum(segDisp', "scheduled", D) = FieldSum(segDisp, "scheduled", D)
      BY <1>0, <1>1, <2>2, <2>3, FieldSumSame
    <2>6. FieldSum(segDisp', "planned", D) = FieldSum(segDisp, "planned", D)
      BY <1>0, <1>1, <2>2, <2>3, FieldSumSame
    <2>7. SegmentsAddUp'
      BY <2>1, <2>3, <2>4, <2>5, <2>6 DEF SegmentsAddUp, D
    <2>8. PlannedInv'
      <3>1. disp'.planned = disp'.scheduled + disp'.dropped
        BY <1>0, <2>1, <2>3, DispatchCountFacts DEF PlannedInv
      <3>2. ASSUME NEW s \in D
            PROVE  segDisp'[s].planned = segDisp'[s].scheduled + segDisp'[s].dropped
        <4>1. segDisp[s].planned = segDisp[s].scheduled + segDisp[s].dropped
                  + (IF seg = s THEN 1 ELSE 0)
          BY <1>0, <2>1 DEF PlannedInv, D
        <4>2. segDisp[s].scheduled \in Nat /\ segDisp[s].dropped \in Nat
          BY <1>0, DispatchCountFacts
        <4>3. QED
          BY <2>2, <2>3, <4>1, <4>2
      <3>3. \A s \in D : segDisp'[s].scheduled \in Nat /\ segDisp'[s].dropped \in Nat
        BY <1>0, <2>2, <2>3, DispatchCountFacts
      <3>4. disp'.scheduled \in Nat /\ disp'.dropped \in Nat
        BY <1>0, <2>3, DispatchCountFacts
      <3>5. QED
        BY <2>1, <3>1, <3>2, <3>3, <3>4 DEF PlannedInv, D
    <2>9. QED
      BY <2>7, <2>8
  <1>4. CASE Admit
    <2>1. /\ disp' = CountScheduled(disp) /\ pc' = "reserve" /\ pc = "admit"
          /\ segDisp' = [segDisp EXCEPT ![seg] = CountScheduled(@)]
          /\ UNCHANGED <<profile, seg>>
      BY <1>4 DEF Admit, paceVars
    <2>2. /\ \A s \in D \ {seg} : segDisp'[s] = segDisp[s]
          /\ segDisp'[seg] = CountScheduled(segDisp[seg])
      BY <1>0, <2>1
    <2>3. /\ disp'.planned = disp.planned
          /\ disp'.scheduled = disp.scheduled + 1 /\ disp'.dropped = disp.dropped
          /\ segDisp'[seg].planned = segDisp[seg].planned
          /\ segDisp'[seg].scheduled = segDisp[seg].scheduled + 1
          /\ segDisp'[seg].dropped = segDisp[seg].dropped
      BY <1>0, <2>1, <2>2, DispatchCountFacts
    <2>4. FieldSum(segDisp', "scheduled", D) = FieldSum(segDisp, "scheduled", D) + 1
      <3>1. ChangesBy(segDisp, segDisp', "scheduled", D, seg, 1)
        BY <1>0, <1>1, <2>2, <2>3 DEF ChangesBy
      <3>2. QED
        BY <1>0, <3>1, FieldSumChange
    <2>5. FieldSum(segDisp', "dropped", D) = FieldSum(segDisp, "dropped", D)
      BY <1>0, <1>1, <2>2, <2>3, FieldSumSame
    <2>6. FieldSum(segDisp', "planned", D) = FieldSum(segDisp, "planned", D)
      BY <1>0, <1>1, <2>2, <2>3, FieldSumSame
    <2>7. SegmentsAddUp'
      BY <2>1, <2>3, <2>4, <2>5, <2>6 DEF SegmentsAddUp, D
    <2>8. PlannedInv'
      <3>1. disp'.planned = disp'.scheduled + disp'.dropped
        BY <1>0, <2>1, <2>3, DispatchCountFacts DEF PlannedInv
      <3>2. ASSUME NEW s \in D
            PROVE  segDisp'[s].planned = segDisp'[s].scheduled + segDisp'[s].dropped
        <4>1. segDisp[s].planned = segDisp[s].scheduled + segDisp[s].dropped
                  + (IF seg = s THEN 1 ELSE 0)
          BY <1>0, <2>1 DEF PlannedInv, D
        <4>2. segDisp[s].scheduled \in Nat /\ segDisp[s].dropped \in Nat
          BY <1>0, DispatchCountFacts
        <4>3. QED
          BY <2>2, <2>3, <4>1, <4>2
      <3>3. \A s \in D : segDisp'[s].scheduled \in Nat /\ segDisp'[s].dropped \in Nat
        BY <1>0, <2>2, <2>3, DispatchCountFacts
      <3>4. disp'.scheduled \in Nat /\ disp'.dropped \in Nat
        BY <1>0, <2>3, DispatchCountFacts
      <3>5. QED
        BY <2>1, <3>1, <3>2, <3>3, <3>4 DEF PlannedInv, D
    <2>9. QED
      BY <2>7, <2>8
  <1>5. CASE ~PlanTick /\ ~Drop /\ ~Admit
    BY <1>5, DispatchKept DEF PlannedInv, SegmentsAddUp
  <1>6. QED
    BY <1>2, <1>3, <1>4, <1>5

-----------------------------------------------------------------------------
(* The report: the workers' counters and the collector.                     *)

CountFields == {"started", "completed", "canceled"}

\* By how much a started, respectively returned, request moves a counter
StartedBy(counter) == IF counter = "started" THEN 1 ELSE 0
ReturnedBy(o, counter) ==
    IF counter = (IF o = "canceled" THEN "canceled" ELSE "completed") THEN 1 ELSE 0

\* What counting, noting a throttle and merging do to each counter.
LEMMA CountFacts ==
    ASSUME NEW counter \in CountFields
    PROVE  /\ \A c \in Counts : c[counter] \in Nat
           /\ NoCounts[counter] = 0
           /\ \A c \in Counts : CountStarted(c)[counter] = c[counter] + StartedBy(counter)
           /\ \A c \in Counts : \A o : CountReturned(c, o)[counter] = c[counter] + ReturnedBy(o, counter)
           /\ \A c \in Counts : \A t : NoteThrottle(c, t)[counter] = c[counter]
           /\ \A a \in Counts, b \in Counts : MergeCounts(a, b)[counter] = a[counter] + b[counter]
  <1>1. CASE counter = "started"
    BY <1>1 DEF Counts, NoCounts, CountStarted, CountReturned, NoteThrottle, MergeCounts,
         StartedBy, ReturnedBy
  <1>2. CASE counter = "completed"
    BY <1>2 DEF Counts, NoCounts, CountStarted, CountReturned, NoteThrottle, MergeCounts,
         StartedBy, ReturnedBy
  <1>3. CASE counter = "canceled"
    BY <1>3 DEF Counts, NoCounts, CountStarted, CountReturned, NoteThrottle, MergeCounts,
         StartedBy, ReturnedBy
  <1>4. QED
    BY <1>1, <1>2, <1>3 DEF CountFields

\* What worker w has recorded and not yet flushed
Held == [w \in Workers |-> IF Active(w) THEN current[w] ELSE NoCounts]

\* The same, for segment s
HeldFor(s) == [w \in Workers |-> IF Active(w) /\ wseg[w] = s THEN current[w] ELSE NoCounts]

\* The counters are numbers, and a worker that is not active holds nothing.
LEMMA HeldFacts ==
    ASSUME TypeOK, NEW counter \in CountFields
    PROVE  /\ \A w \in Workers : /\ overall[w][counter] \in Nat /\ current[w][counter] \in Nat
                                 /\ Held[w][counter] \in Nat
                                 /\ Active(w) => Held[w] = current[w]
                                 /\ ~Active(w) => Held[w][counter] = 0
           /\ \A s \in DOMAIN profile : collected[s][counter] \in Nat
           /\ \A s : \A w \in Workers :
                  /\ HeldFor(s)[w][counter] \in Nat
                  /\ Active(w) /\ wseg[w] = s => HeldFor(s)[w] = current[w]
                  /\ ~(Active(w) /\ wseg[w] = s) => HeldFor(s)[w][counter] = 0
  <1>1. /\ \A w \in Workers : overall[w] \in Counts /\ current[w] \in Counts
        /\ \A s \in DOMAIN profile : collected[s] \in Counts
    BY DEF TypeOK
  <1>2. \A w \in Workers : overall[w][counter] \in Nat /\ current[w][counter] \in Nat
    BY <1>1, CountFacts
  <1>3. \A s \in DOMAIN profile : collected[s][counter] \in Nat
    BY <1>1, CountFacts
  <1>4. \A w \in Workers : /\ Active(w) => Held[w] = current[w]
                           /\ ~Active(w) => Held[w] = NoCounts
    BY DEF Held
  <1>5. \A s : \A w \in Workers :
                  /\ Active(w) /\ wseg[w] = s => HeldFor(s)[w] = current[w]
                  /\ ~(Active(w) /\ wseg[w] = s) => HeldFor(s)[w] = NoCounts
    BY DEF HeldFor
  <1>6. NoCounts[counter] = 0
    BY CountFacts
  <1>7. \A w \in Workers : Held[w][counter] \in Nat /\ (~Active(w) => Held[w][counter] = 0)
    BY <1>2, <1>4, <1>6
  <1>8. \A s : \A w \in Workers :
           /\ HeldFor(s)[w][counter] \in Nat
           /\ ~(Active(w) /\ wseg[w] = s) => HeldFor(s)[w][counter] = 0
    BY <1>2, <1>5, <1>6
  <1>9. QED
    BY <1>2, <1>3, <1>4, <1>5, <1>7, <1>8

\* How a step of worker w moves one counter: it records `by` more, and hands
\* what it held over to the collector if it flushes.
CountMove(w, counter, by, flushes) ==
    /\ UNCHANGED profile
    /\ \A u \in Workers \ {w} :
           /\ overall'[u] = overall[u] /\ Held'[u] = Held[u]
           /\ \A s : HeldFor(s)'[u] = HeldFor(s)[u]
    /\ overall'[w][counter] = overall[w][counter] + by
    /\ Held'[w][counter] = (IF flushes THEN 0 ELSE Held[w][counter]) + by
    /\ \A s : HeldFor(s)'[w][counter] = (IF flushes THEN 0 ELSE HeldFor(s)[w][counter])
                                            + (IF wseg'[w] = s THEN by ELSE 0)
    /\ collected' = IF flushes THEN Flushed(w) ELSE collected

\* Workers that a step leaves alone keep what they hold.
LEMMA OthersHold ==
    ASSUME TypeOK, NEW u \in Workers, wpc'[u] = wpc[u], wseg'[u] = wseg[u], current'[u] = current[u]
    PROVE  Held'[u] = Held[u] /\ \A s : HeldFor(s)'[u] = HeldFor(s)[u]
  BY DEF Held, HeldFor, Active

\* Taking a job counts it as started; a job of another segment flushes first.
LEMMA ReceiveMoves ==
    ASSUME TypeOK, NEW w \in Workers, NEW counter \in CountFields, Receive(w)
    PROVE  /\ Active(w) /\ wseg'[w] = Head(jobs).segment
           /\ CountMove(w, counter, StartedBy(counter), Head(jobs).segment # wseg[w])
  <1> DEFINE switch == Head(jobs).segment # wseg[w]
             by == StartedBy(counter)
  <1>1. /\ UNCHANGED profile /\ Active(w) /\ Active(w)' /\ wseg'[w] = Head(jobs).segment
        /\ overall'[w] = CountStarted(overall[w])
        /\ current'[w] = CountStarted(IF switch THEN NoCounts ELSE current[w])
        /\ collected' = IF switch THEN Flushed(w) ELSE collected
    BY DEF Receive, TypeOK, Active, paceVars
  <1>2. \A u \in Workers \ {w} :
           /\ overall'[u] = overall[u] /\ wpc'[u] = wpc[u] /\ wseg'[u] = wseg[u]
           /\ current'[u] = current[u]
    BY DEF Receive, TypeOK
  <1>3. \A u \in Workers \ {w} :
           /\ overall'[u] = overall[u] /\ Held'[u] = Held[u]
           /\ \A s : HeldFor(s)'[u] = HeldFor(s)[u]
    BY <1>2, OthersHold
  <1>4. overall[w] \in Counts /\ current[w] \in Counts /\ NoCounts \in Counts
    BY CountTypes DEF TypeOK
  <1>5. overall'[w][counter] = overall[w][counter] + by
    BY <1>1, <1>4, CountFacts
  <1>6. current'[w][counter] = (IF switch THEN 0 ELSE current[w][counter]) + by
    BY <1>1, <1>4, CountFacts
  <1>7. Held'[w] = current'[w] /\ Held[w] = current[w]
    BY <1>1 DEF Held
  <1>8. Held'[w][counter] = (IF switch THEN 0 ELSE Held[w][counter]) + by
    BY <1>6, <1>7
  <1>9. ASSUME NEW s
        PROVE  HeldFor(s)'[w][counter] = (IF switch THEN 0 ELSE HeldFor(s)[w][counter])
                                            + (IF wseg'[w] = s THEN by ELSE 0)
    <2>1. /\ wseg'[w] = s => HeldFor(s)'[w] = current'[w]
          /\ wseg'[w] # s => HeldFor(s)'[w] = NoCounts
          /\ wseg[w] = s => HeldFor(s)[w] = current[w]
          /\ wseg[w] # s => HeldFor(s)[w] = NoCounts
      BY <1>1 DEF HeldFor
    <2>2. NoCounts[counter] = 0 /\ by \in Nat /\ current[w][counter] \in Nat
      BY <1>4, CountFacts DEF StartedBy
    <2> HIDE DEF by
    <2>3. QED
      BY <1>1, <1>6, <2>1, <2>2
  <1>10. QED
    BY <1>1, <1>3, <1>5, <1>8, <1>9 DEF CountMove

\* Recording a result counts it as completed or canceled.
LEMMA RecordMoves ==
    ASSUME TypeOK, NEW w \in Workers, NEW counter \in CountFields, Record(w)
    PROVE  CountMove(w, counter, ReturnedBy(outcome[w], counter), FALSE)
  <1> DEFINE by == ReturnedBy(outcome[w], counter)
             c == CountReturned(current[w], outcome[w])
  <1>1. /\ UNCHANGED <<profile, collected>> /\ Active(w) /\ Active(w)' /\ wseg'[w] = wseg[w]
        /\ overall'[w] = CountReturned(overall[w], outcome[w])
        /\ current'[w] = c \/ current'[w] = NoteThrottle(c, job[w].offset)
    BY DEF Record, TypeOK, Active, paceVars
  <1>2. \A u \in Workers \ {w} :
           /\ overall'[u] = overall[u] /\ wpc'[u] = wpc[u] /\ wseg'[u] = wseg[u]
           /\ current'[u] = current[u]
    BY DEF Record, TypeOK
  <1>3. \A u \in Workers \ {w} :
           /\ overall'[u] = overall[u] /\ Held'[u] = Held[u]
           /\ \A s : HeldFor(s)'[u] = HeldFor(s)[u]
    BY <1>2, OthersHold
  <1>4. overall[w] \in Counts /\ current[w] \in Counts /\ c \in Counts
    BY CountTypes DEF TypeOK
  <1>5. overall'[w][counter] = overall[w][counter] + by
    BY <1>1, <1>4, CountFacts
  <1>6. current'[w][counter] = current[w][counter] + by
    <2>1. c[counter] = current[w][counter] + by
      BY <1>4, CountFacts
    <2> HIDE DEF c
    <2>2. QED
      BY <1>1, <1>4, <2>1, CountFacts
  <1>7. Held'[w] = current'[w] /\ Held[w] = current[w]
    BY <1>1 DEF Held
  <1>8. Held'[w][counter] = Held[w][counter] + by
    BY <1>6, <1>7
  <1>9. ASSUME NEW s
        PROVE  HeldFor(s)'[w][counter] = HeldFor(s)[w][counter] + (IF wseg'[w] = s THEN by ELSE 0)
    <2>1. /\ wseg'[w] = s => HeldFor(s)'[w] = current'[w] /\ HeldFor(s)[w] = current[w]
          /\ wseg'[w] # s => HeldFor(s)'[w] = NoCounts /\ HeldFor(s)[w] = NoCounts
      BY <1>1 DEF HeldFor
    <2>2. NoCounts[counter] = 0 /\ by \in Nat /\ current[w][counter] \in Nat
      BY <1>4, CountFacts DEF ReturnedBy
    <2> HIDE DEF by
    <2>3. QED
      BY <1>1, <1>6, <2>1, <2>2
  <1>10. QED
    BY <1>1, <1>3, <1>5, <1>8, <1>9 DEF CountMove

\* Leaving the loop flushes; a returning request and Done move nothing.
LEMMA OtherMoves ==
    ASSUME TypeOK, NEW w \in Workers, NEW counter \in CountFields
    PROVE  /\ LeaveLoop(w) => Active(w) /\ CountMove(w, counter, 0, TRUE)
           /\ Done(w) => CountMove(w, counter, 0, FALSE)
           /\ \A o : FinishRequest(w, o) => CountMove(w, counter, 0, FALSE)
  <1>1. /\ NoCounts[counter] = 0 /\ overall[w][counter] \in Nat /\ Held[w][counter] \in Nat
        /\ \A s : HeldFor(s)[w][counter] \in Nat
    BY CountFacts, HeldFacts
  <1>2. ASSUME LeaveLoop(w)
        PROVE  Active(w) /\ CountMove(w, counter, 0, TRUE)
    <2>1. /\ UNCHANGED <<profile, overall, wseg, current>> /\ Active(w) /\ ~Active(w)'
          /\ collected' = Flushed(w)
      BY <1>2 DEF LeaveLoop, TypeOK, Active, paceVars
    <2>2. \A u \in Workers \ {w} : Held'[u] = Held[u] /\ \A s : HeldFor(s)'[u] = HeldFor(s)[u]
      BY <1>2, OthersHold DEF LeaveLoop, TypeOK
    <2>3. Held'[w] = NoCounts /\ \A s : HeldFor(s)'[w] = NoCounts
      BY <2>1 DEF Held, HeldFor
    <2>4. QED
      BY <1>1, <2>1, <2>2, <2>3 DEF CountMove
  <1>3. ASSUME UNCHANGED <<profile, overall, wseg, current, collected>>, Active(w)' <=> Active(w),
               \A u \in Workers \ {w} : wpc'[u] = wpc[u]
        PROVE  CountMove(w, counter, 0, FALSE)
    <2>1. \A u \in Workers \ {w} : Held'[u] = Held[u] /\ \A s : HeldFor(s)'[u] = HeldFor(s)[u]
      BY <1>3, OthersHold DEF TypeOK
    <2>2. Held'[w] = Held[w] /\ \A s : HeldFor(s)'[w] = HeldFor(s)[w]
      BY <1>3 DEF Held, HeldFor
    <2>3. QED
      BY <1>1, <1>3, <2>1, <2>2 DEF CountMove
  <1>4. Done(w) => CountMove(w, counter, 0, FALSE)
    BY <1>3 DEF Done, TypeOK, Active, paceVars
  <1>5. \A o : FinishRequest(w, o) => CountMove(w, counter, 0, FALSE)
    BY <1>3 DEF FinishRequest, TypeOK, Active, paceVars
  <1>6. QED
    BY <1>2, <1>4, <1>5

\* What a flush adds to the collector is what the worker held.
LEMMA FlushAdds ==
    ASSUME TypeOK, ThrottleInv, NEW w \in Workers, NEW counter \in CountFields, Active(w),
           collected' = Flushed(w)
    PROVE  /\ \A s \in DOMAIN profile :
                  collected'[s][counter] = collected[s][counter] + HeldFor(s)[w][counter]
           /\ wseg[w] \notin DOMAIN profile => Held[w][counter] = 0
  <1>1. 0 \notin DOMAIN profile /\ wseg[w] \in DOMAIN profile \cup {0}
    BY ProfileFacts DEF TypeOK
  <1>2. Held[w] = current[w]
    BY HeldFacts
  <1>3. wseg[w] \notin DOMAIN profile => Held[w][counter] = 0
    BY <1>1, <1>2, CountFacts DEF ThrottleInv
  <1>4. ASSUME NEW s \in DOMAIN profile
        PROVE  collected'[s][counter] = collected[s][counter] + HeldFor(s)[w][counter]
    <2>1. /\ collected[s] \in Counts /\ current[w] \in Counts /\ collected[s][counter] \in Nat
      BY HeldFacts DEF TypeOK
    <2>2. CASE wseg[w] = s
      <3>1. collected'[s] = MergeCounts(collected[s], current[w])
        BY <1>1, <2>2 DEF Flushed, TypeOK
      <3>2. HeldFor(s)[w] = current[w]
        BY <2>2, HeldFacts
      <3>3. QED
        BY <2>1, <3>1, <3>2, CountFacts
    <2>3. CASE wseg[w] # s
      <3>1. collected'[s] = collected[s]
        BY <2>3 DEF Flushed, TypeOK
      <3>2. HeldFor(s)[w][counter] = 0
        BY <2>3, HeldFacts
      <3>3. QED
        BY <2>1, <3>1, <3>2
    <2>4. QED
      BY <2>2, <2>3
  <1>5. QED
    BY <1>3, <1>4

\* The run's counter is the collected one and the held one.
FlushedCount(counter) ==
    FieldSum(overall, counter, Workers) =
        FieldSum(collected, counter, DOMAIN profile) + FieldSum(Held, counter, Workers)

\* Moving a counter keeps that so.
LEMMA MoveKeepsFlush ==
    ASSUME TypeOK, ThrottleInv, NEW w \in Workers, NEW counter \in CountFields, NEW by \in Nat,
           NEW flushes \in BOOLEAN, flushes => Active(w), CountMove(w, counter, by, flushes),
           FlushedCount(counter)
    PROVE  FlushedCount(counter)'
  <1> DEFINE D == DOMAIN profile
             held == Held[w][counter]
             d == by - (IF flushes THEN held ELSE 0)
  <1>1. IsFiniteSet(Workers) /\ IsFiniteSet(D)
    BY WorkersAssumption, SegmentsFinite
  <1>2. /\ \A u \in Workers : overall[u][counter] \in Int
        /\ \A u \in Workers : Held[u][counter] \in Int
        /\ \A s \in D : collected[s][counter] \in Int
        /\ held \in Int /\ by \in Int
    BY HeldFacts
  <1> HIDE DEF D, held, d
  <1>3. FieldSum(overall', counter, Workers) = FieldSum(overall, counter, Workers) + by
    <2>1. ChangesBy(overall, overall', counter, Workers, w, by)
      BY <1>2 DEF CountMove, ChangesBy
    <2>2. QED
      BY <1>1, <2>1, FieldSumChange
  <1>4. /\ FieldSum(overall, counter, Workers) \in Int
        /\ FieldSum(collected, counter, D) \in Int /\ FieldSum(Held, counter, Workers) \in Int
    BY <1>1, <1>2, FieldSumFacts
  <1>5. FieldSum(Held', counter, Workers) = FieldSum(Held, counter, Workers) + d
    <2>1. ChangesBy(Held, Held', counter, Workers, w, d)
      BY <1>2 DEF CountMove, held, d, ChangesBy
    <2>2. QED
      BY <1>1, <2>1, FieldSumChange
  <1>6. CASE ~flushes
    <2>1. collected' = collected /\ profile' = profile /\ d = by
      BY <1>2, <1>6 DEF CountMove, d
    <2>2. QED
      BY <1>3, <1>4, <1>5, <2>1 DEF FlushedCount, D
  <1>7. CASE flushes
    <2>1. collected' = Flushed(w) /\ profile' = profile /\ Active(w) /\ d = by - held
      BY <1>7 DEF CountMove, d
    <2>2. FieldSum(collected', counter, D) = FieldSum(collected, counter, D) + held
      <3>1. /\ \A s \in D : collected'[s][counter] = collected[s][counter] + HeldFor(s)[w][counter]
            /\ wseg[w] \notin D => held = 0
        BY <2>1, FlushAdds DEF D, held
      <3>2. /\ \A s \in D : s # wseg[w] => HeldFor(s)[w][counter] = 0
            /\ HeldFor(wseg[w])[w][counter] = held
        <4>1. HeldFor(wseg[w])[w] = current[w] /\ Held[w] = current[w]
          BY <2>1, HeldFacts
        <4>2. QED
          BY <4>1, HeldFacts DEF held
      <3>3. CASE wseg[w] \in D
        <4>1. ChangesBy(collected, collected', counter, D, wseg[w], held)
          BY <1>2, <3>1, <3>2, <3>3 DEF ChangesBy
        <4>2. QED
          BY <1>1, <4>1, FieldSumChange
      <3>4. CASE wseg[w] \notin D
        <4>1. held = 0 /\ \A s \in D : /\ collected[s][counter] \in Int
                                       /\ collected'[s][counter] = collected[s][counter]
          BY <1>2, <3>1, <3>2, <3>4
        <4>2. FieldSum(collected', counter, D) = FieldSum(collected, counter, D)
          BY ONLY <1>1, <4>1, FieldSumSame
        <4>3. QED
          BY <1>4, <4>1, <4>2
      <3>5. QED
        BY <3>3, <3>4
    <2>3. QED
      BY <1>2, <1>3, <1>4, <1>5, <2>1, <2>2 DEF FlushedCount, D
  <1>8. QED
    BY <1>6, <1>7

\* The requests of segment s that a worker has started
Taken(s) == collected[s].started + FieldSum(HeldFor(s), "started", Workers)

\* Moving the started counter adds to the segment the worker is in now.
LEMMA MoveTakes ==
    ASSUME TypeOK, ThrottleInv, NEW w \in Workers, NEW by \in Nat, NEW flushes \in BOOLEAN,
           flushes => Active(w), CountMove(w, "started", by, flushes), NEW s \in DOMAIN profile
    PROVE  Taken(s)' = Taken(s) + (IF wseg'[w] = s THEN by ELSE 0)
  <1> DEFINE more == IF wseg'[w] = s THEN by ELSE 0
             held == HeldFor(s)[w].started
  <1>1. "started" \in CountFields /\ IsFiniteSet(Workers)
    BY WorkersAssumption DEF CountFields
  <1>2. /\ \A u \in Workers : HeldFor(s)[u]["started"] \in Int
        /\ collected[s].started \in Int /\ held \in Int
    BY <1>1, HeldFacts
  <1>3. more \in Int
    OBVIOUS
  <1>4. FieldSum(HeldFor(s), "started", Workers) \in Int
    BY <1>1, <1>2, FieldSumFacts
  <1>5. \A u \in Workers \ {w} : HeldFor(s)'[u]["started"] = HeldFor(s)[u]["started"]
    BY DEF CountMove
  <1>6. CASE ~flushes
    <2>1. HeldFor(s)'[w]["started"] = HeldFor(s)[w]["started"] + more /\ collected' = collected
      BY <1>6 DEF CountMove
    <2> HIDE DEF more
    <2>2. ChangesBy(HeldFor(s), HeldFor(s)', "started", Workers, w, more)
      BY <1>2, <1>3, <1>5, <2>1 DEF ChangesBy
    <2>3. FieldSum(HeldFor(s)', "started", Workers) = FieldSum(HeldFor(s), "started", Workers) + more
      BY <1>1, <2>2, FieldSumChange
    <2>4. QED
      BY <1>2, <1>3, <1>4, <2>1, <2>3 DEF Taken, more
  <1>7. CASE flushes
    <2>1. HeldFor(s)'[w]["started"] = more /\ collected' = Flushed(w)
      BY <1>3, <1>7 DEF CountMove
    <2>2. collected'[s].started = collected[s].started + held
      BY <1>1, <1>7, <2>1, FlushAdds
    <2> HIDE DEF more, held
    <2>3. ChangesBy(HeldFor(s), HeldFor(s)', "started", Workers, w, more - held)
      BY <1>2, <1>3, <1>5, <2>1 DEF held, ChangesBy
    <2>4. FieldSum(HeldFor(s)', "started", Workers)
              = FieldSum(HeldFor(s), "started", Workers) + (more - held)
      BY <1>1, <2>3, FieldSumChange
    <2>5. QED
      BY <1>2, <1>3, <1>4, <2>2, <2>4 DEF Taken, more
  <1>8. QED
    BY <1>6, <1>7

-----------------------------------------------------------------------------
(* The report: from the dispatcher to the workers.                          *)

\* The places of segment s's jobs in the channel
QueuedAt(q, s) == {i \in 1 .. Len(q) : q[i].segment = s}

\* A job sent to the channel is one more of its segment there.
LEMMA QueueSend ==
    ASSUME NEW T, NEW q \in Seq(T), NEW e \in T, NEW s
    PROVE  /\ IsFiniteSet(QueuedAt(q, s)) /\ Cardinality(QueuedAt(q, s)) \in Nat
           /\ Cardinality(QueuedAt(Append(q, e), s)) =
                  Cardinality(QueuedAt(q, s)) + (IF e.segment = s THEN 1 ELSE 0)
  <1> DEFINE A == QueuedAt(q, s)
             n == Len(q) + 1
  <1>1. IsFiniteSet(A) /\ Cardinality(A) \in Nat /\ n \notin A
    <2>1. A \in SUBSET (1 .. Len(q)) /\ Len(q) \in Nat
      BY LenProperties DEF QueuedAt
    <2>2. IsFiniteSet(1 .. Len(q))
      BY <2>1, FS_Interval
    <2>3. n \notin A
      BY <2>1
    <2> HIDE DEF A
    <2>4. QED
      BY <2>1, <2>2, <2>3, FS_Subset, FS_CardinalityType
  <1>2. QueuedAt(Append(q, e), s) = IF e.segment = s THEN A \cup {n} ELSE A
    <2>1. /\ Len(Append(q, e)) = n /\ Len(q) \in Nat
          /\ \A i \in 1 .. Len(q) : Append(q, e)[i] = q[i]
          /\ Append(q, e)[n] = e
      BY AppendProperties, LenProperties
    <2>2. \A i : i \in 1 .. n <=> i \in 1 .. Len(q) \/ i = n
      BY <2>1
    <2>3. QED
      BY <2>1, <2>2 DEF QueuedAt
  <1> HIDE DEF A, n
  <1>3. Cardinality(A \cup {n}) = Cardinality(A) + 1
    BY <1>1, FS_AddElement
  <1>4. QED
    BY <1>1, <1>2, <1>3 DEF A

\* A job received from the channel is one less of its segment there.
LEMMA QueueReceive ==
    ASSUME NEW T, NEW q \in Seq(T), q # <<>>, NEW s
    PROVE  /\ IsFiniteSet(QueuedAt(q, s)) /\ Cardinality(QueuedAt(q, s)) \in Nat
           /\ Cardinality(QueuedAt(Tail(q), s)) =
                  Cardinality(QueuedAt(q, s)) - (IF Head(q).segment = s THEN 1 ELSE 0)
  <1> DEFINE A == QueuedAt(q, s)
             B == QueuedAt(Tail(q), s)
             f == [i \in A \ {1} |-> i - 1]
  <1>0. /\ Len(q) \in Nat \ {0} /\ Len(Tail(q)) = Len(q) - 1 /\ Head(q) = q[1]
        /\ \A i \in 1 .. Len(Tail(q)) : Tail(q)[i] = q[i + 1]
    BY HeadTailProperties, LenProperties, EmptySeq
  <1>1. IsFiniteSet(A) /\ Cardinality(A) \in Nat
    <2>1. A \in SUBSET (1 .. Len(q))
      BY DEF QueuedAt
    <2>2. IsFiniteSet(1 .. Len(q))
      BY <1>0, FS_Interval
    <2> HIDE DEF A
    <2>3. QED
      BY <2>1, <2>2, FS_Subset, FS_CardinalityType
  <1>2. B \subseteq Nat /\ \A i \in B : i + 1 \in A \ {1}
    BY <1>0 DEF QueuedAt
  <1>3. \A j \in A \ {1} : j - 1 \in B /\ j \in Nat
    BY <1>0 DEF QueuedAt
  <1>4. f \in Bijection(A \ {1}, B)
    <2> HIDE DEF A, B
    <2>1. f \in [A \ {1} -> B]
      BY <1>3
    <2>2. \A i, j \in A \ {1} : f[i] = f[j] => i = j
      BY <1>3
    <2>3. \A i \in B : f[i + 1] = i
      BY <1>2
    <2> HIDE DEF f
    <2>4. \A i \in B : \E j \in A \ {1} : f[j] = i
      BY <1>2, <2>3
    <2>5. QED
      BY <2>1, <2>2, <2>4 DEF Bijection, Injection, Surjection, IsInjective
  <1>5. 1 \in A <=> Head(q).segment = s
    BY <1>0 DEF QueuedAt
  <1> HIDE DEF A, B, f
  <1>6. IsFiniteSet(A \ {1})
        /\ Cardinality(A \ {1}) = IF 1 \in A THEN Cardinality(A) - 1 ELSE Cardinality(A)
    BY <1>1, FS_RemoveElement
  <1>7. Cardinality(B) = Cardinality(A \ {1})
    <2>1. ExistsBijection(A \ {1}, B)
      BY <1>4 DEF ExistsBijection
    <2>2. QED
      BY <1>6, <2>1, FS_Bijection
  <1>8. QED
    BY <1>1, <1>5, <1>6, <1>7 DEF A, B

Handing(s) == IF pc \in {"reserve", "peak", "send"} /\ seg = s THEN 1 ELSE 0

\* A request scheduled in a segment was started there, is queued, or is on its
\* way to the channel.
ScheduledInv ==
    \A s \in DOMAIN profile :
        segDisp[s].scheduled = Taken(s) + Cardinality(QueuedAt(jobs, s)) + Handing(s)

FlushInv == \A counter \in CountFields : FlushedCount(counter)

\* Launching the workers moves nothing: before, none held anything, and then
\* each holds nothing yet.
LEMMA StartHolds ==
    ASSUME AccountInv, MergedInv, Start
    PROVE  /\ UNCHANGED <<profile, overall, collected>>
           /\ \A w \in Workers : Held'[w] = NoCounts /\ Held[w] = NoCounts
           /\ \A s : \A w \in Workers : HeldFor(s)'[w] = NoCounts /\ HeldFor(s)[w] = NoCounts
  <1>1. /\ UNCHANGED <<profile, overall, collected, wseg, current>>
        /\ \A w \in Workers : ~Active(w) /\ current[w] = NoCounts
    BY DEF Start, AccountInv, WorkersLeave, WorkersDone, MergedInv, Active
  <1>2. \A w \in Workers : Held'[w] = NoCounts /\ Held[w] = NoCounts
    BY <1>1 DEF Held
  <1>3. \A s : \A w \in Workers : HeldFor(s)'[w] = NoCounts /\ HeldFor(s)[w] = NoCounts
    BY <1>1 DEF HeldFor
  <1>4. QED
    BY <1>1, <1>2, <1>3

\* Every step keeps the run's counters equal to the collected and held ones.
LEMMA FlushStep ==
    ASSUME AccountInv, MergedInv, ThrottleInv, FlushInv, [Next]_vars
    PROVE  FlushInv'
  <1> SUFFICES ASSUME NEW counter \in CountFields
               PROVE  FlushedCount(counter)'
    BY DEF FlushInv
  <1>0. TypeOK /\ FlushedCount(counter) /\ IsFiniteSet(Workers)
    BY WorkersAssumption DEF AccountInv, FlushInv
  <1>1. CASE Elsewhere \/ Reserve \/ RecordPeak \/ Send \/ UNCHANGED vars
    <2>1. UNCHANGED <<overall, collected, profile>> /\ Held' = Held
      BY <1>1, CountsKept DEF Held, Active
    <2>2. QED
      BY <1>0, <2>1 DEF FlushedCount
  <1>2. CASE Start
    <2>1. /\ UNCHANGED <<overall, collected, profile>>
          /\ \A w \in Workers : Held[w][counter] \in Int /\ Held'[w][counter] = Held[w][counter]
      BY <1>0, <1>2, StartHolds, HeldFacts
    <2>2. FieldSum(Held', counter, Workers) = FieldSum(Held, counter, Workers)
      BY <1>0, <2>1, FieldSumSame
    <2>3. QED
      BY <1>0, <2>1, <2>2 DEF FlushedCount
  <1>3. ASSUME NEW w \in Workers, Receive(w)
        PROVE  FlushedCount(counter)'
    <2>1. /\ StartedBy(counter) \in Nat /\ Active(w)
          /\ CountMove(w, counter, StartedBy(counter), Head(jobs).segment # wseg[w])
      BY <1>0, <1>3, ReceiveMoves DEF StartedBy
    <2>2. (Head(jobs).segment # wseg[w]) \in BOOLEAN
      OBVIOUS
    <2>3. QED
      BY <1>0, <2>1, <2>2, MoveKeepsFlush
  <1>4. ASSUME NEW w \in Workers, Record(w)
        PROVE  FlushedCount(counter)'
    <2>1. /\ ReturnedBy(outcome[w], counter) \in Nat
          /\ CountMove(w, counter, ReturnedBy(outcome[w], counter), FALSE)
      BY <1>0, <1>4, RecordMoves DEF ReturnedBy
    <2>2. QED
      BY <1>0, <2>1, MoveKeepsFlush
  <1>5. ASSUME NEW w \in Workers, LeaveLoop(w) \/ Done(w) \/ \E o \in Outcomes : FinishRequest(w, o)
        PROVE  FlushedCount(counter)'
    <2>1. CASE LeaveLoop(w)
      BY <1>0, <2>1, OtherMoves, MoveKeepsFlush
    <2>2. CASE Done(w) \/ \E o \in Outcomes : FinishRequest(w, o)
      BY <1>0, <2>2, OtherMoves, MoveKeepsFlush
    <2>3. QED
      BY <1>5, <2>1, <2>2
  <1>6. QED
    BY <1>1, <1>2, <1>3, <1>4, <1>5, NextCases

\* A job is taken when a worker receives it, and at no other step.
LEMMA TakenStep ==
    ASSUME AccountInv, MergedInv, ThrottleInv, [Next]_vars, NEW s \in DOMAIN profile
    PROVE  /\ (\A w \in Workers : ~Receive(w)) => Taken(s)' = Taken(s)
           /\ \A w \in Workers :
                  Receive(w) => Taken(s)' = Taken(s) + (IF Head(jobs).segment = s THEN 1 ELSE 0)
           /\ Taken(s) \in Int
  <1>0. TypeOK /\ IsFiniteSet(Workers) /\ "started" \in CountFields
    BY WorkersAssumption DEF AccountInv, CountFields
  <1>1. Taken(s) \in Int
    <2>1. collected[s].started \in Int /\ \A w \in Workers : HeldFor(s)[w]["started"] \in Int
      BY <1>0, HeldFacts
    <2>2. FieldSum(HeldFor(s), "started", Workers) \in Int
      BY <1>0, <2>1, FieldSumFacts
    <2>3. QED
      BY <2>1, <2>2 DEF Taken
  <1>2. CASE Elsewhere \/ Reserve \/ RecordPeak \/ Send \/ UNCHANGED vars
    <2>1. collected' = collected /\ HeldFor(s)' = HeldFor(s)
      BY <1>2, CountsKept DEF HeldFor, Active
    <2>2. Taken(s)' = Taken(s)
      BY <2>1 DEF Taken
    <2>3. \A w \in Workers : ~Receive(w)
      <3>1. ASSUME NEW w \in Workers, Receive(w) PROVE FALSE
        <4>1. wpc[w] = "idle" /\ wpc'[w] = "exec"
          BY <1>0, <3>1 DEF Receive, TypeOK
        <4>2. QED
          BY <1>2, <4>1, CountsKept
      <3>2. QED
        BY <3>1
    <2>4. QED
      BY <1>1, <2>2, <2>3
  <1>3. CASE Start
    <2>1. /\ collected' = collected
          /\ \A w \in Workers : /\ HeldFor(s)[w]["started"] \in Int
                                /\ HeldFor(s)'[w]["started"] = HeldFor(s)[w]["started"]
      BY <1>0, <1>3, StartHolds, HeldFacts
    <2>2. FieldSum(HeldFor(s)', "started", Workers) = FieldSum(HeldFor(s), "started", Workers)
      BY <1>0, <2>1, FieldSumSame
    <2>3. Taken(s)' = Taken(s)
      BY <2>1, <2>2 DEF Taken
    <2>4. \A w \in Workers : ~Receive(w)
      BY <1>3 DEF Start, Receive, AccountInv, WorkersLeave, WorkersDone
    <2>5. QED
      BY <1>1, <2>3, <2>4
  <1>4. ASSUME NEW w \in Workers, Receive(w)
        PROVE  Taken(s)' = Taken(s) + (IF Head(jobs).segment = s THEN 1 ELSE 0)
    <2>1. /\ StartedBy("started") = 1 /\ Active(w) /\ wseg'[w] = Head(jobs).segment
          /\ CountMove(w, "started", StartedBy("started"), Head(jobs).segment # wseg[w])
      BY <1>0, <1>4, ReceiveMoves DEF StartedBy
    <2>2. (Head(jobs).segment # wseg[w]) \in BOOLEAN /\ 1 \in Nat
      OBVIOUS
    <2>3. Taken(s)' = Taken(s) + (IF wseg'[w] = s THEN 1 ELSE 0)
      BY <1>0, <2>1, <2>2, MoveTakes
    <2>4. QED
      BY <2>1, <2>3
  <1>5. ASSUME NEW w \in Workers,
               Record(w) \/ LeaveLoop(w) \/ Done(w) \/ \E o \in Outcomes : FinishRequest(w, o)
        PROVE  Taken(s)' = Taken(s)
    <2>1. \E flushes \in BOOLEAN : (flushes => Active(w)) /\ CountMove(w, "started", 0, flushes)
      <3>1. ReturnedBy(outcome[w], "started") = 0
        BY DEF ReturnedBy
      <3>2. Record(w) => CountMove(w, "started", 0, FALSE)
        BY <1>0, <3>1, RecordMoves
      <3>3. QED
        BY <1>0, <1>5, <3>2, OtherMoves
    <2>2. Taken(s)' = Taken(s) + (IF wseg'[w] = s THEN 0 ELSE 0)
      BY <1>0, <2>1, MoveTakes
    <2>3. QED
      BY <1>1, <2>2
  <1>6. QED
    BY <1>1, <1>2, <1>3, <1>4, <1>5, NextCases

\* Only admitting, sending and receiving move a request between the places
\* ScheduledInv names.
LEMMA HandingKept ==
    ASSUME [Next]_vars, ~PlanTick, ~Drop, ~Admit, ~Send, \A w \in Workers : ~Receive(w), NEW s
    PROVE  UNCHANGED <<jobs, segDisp, profile>> /\ Handing(s)' = Handing(s)
  <1>1. UNCHANGED <<jobs, segDisp, profile>>
    BY DEF Next, Terminated, WorkerStep, Record, LeaveLoop, Done,
       FinishRequest, Tick, CancelContext, Dispatcher, Start, StartFails, ReadClock,
       PollContext, PaceTimerFires, CanceledWhileWaiting, EndedWhileWaiting,
       Reserve, RecordPeak, EnterNextSegment, EnterStageFails, ReturnError,
       CloseChannel, StopScheduling, DrainedInTime, GraceExpires, CanceledWhileDraining,
       AwaitWorkers, Complete, Merge, vars, paceVars, countVars, chanVars
  <1>2. \/ pc \in {"reserve", "peak", "send"} /\ pc' \in {"reserve", "peak", "send"} /\ seg' = seg
        \/ pc \notin {"reserve", "peak", "send"} /\ pc' \notin {"reserve", "peak", "send"}
    BY DEF Next, Terminated, WorkerStep, Record, LeaveLoop, Done,
       FinishRequest, Tick, CancelContext, Dispatcher, Start, StartFails, ReadClock,
       PollContext, PaceTimerFires, CanceledWhileWaiting, EndedWhileWaiting,
       Reserve, RecordPeak, EnterNextSegment, EnterStageFails, ReturnError,
       CloseChannel, StopScheduling, DrainedInTime, GraceExpires, CanceledWhileDraining,
       AwaitWorkers, Complete, Merge, vars, paceVars, countVars, chanVars
  <1>3. QED
    BY <1>1, <1>2 DEF Handing

\* Every step keeps track of every scheduled request.
LEMMA ScheduledStep ==
    ASSUME AccountInv, MergedInv, ThrottleInv, ScheduledInv, [Next]_vars
    PROVE  ScheduledInv'
  <1> DEFINE JobSet == [segment : DOMAIN profile, offset : Nat]
  <1>0. /\ TypeOK /\ jobs \in Seq(JobSet) /\ seg \in DOMAIN profile
        /\ \A s \in DOMAIN profile : segDisp[s] \in DispatchCounts
        /\ DOMAIN segDisp = DOMAIN profile
    BY DEF AccountInv, TypeOK
  <1>1. profile' = profile
    BY DEF Next, Terminated, WorkerStep, Receive, Record, LeaveLoop, Done,
       FinishRequest, Tick, CancelContext, Dispatcher, Start, StartFails, ReadClock,
       PollContext, PaceTimerFires, CanceledWhileWaiting, EndedWhileWaiting, PlanTick, Drop, Admit,
       Reserve, RecordPeak, Send, EnterNextSegment, EnterStageFails, ReturnError,
       CloseChannel, StopScheduling, DrainedInTime, GraceExpires, CanceledWhileDraining,
       AwaitWorkers, Complete, Merge, vars, paceVars
  <1> SUFFICES ASSUME NEW s \in DOMAIN profile
               PROVE  segDisp'[s].scheduled =
                          Taken(s)' + Cardinality(QueuedAt(jobs', s)) + Handing(s)'
    BY <1>1 DEF ScheduledInv
  <1> DEFINE queued == Cardinality(QueuedAt(jobs, s))
  <1>2. /\ segDisp[s].scheduled = Taken(s) + queued + Handing(s)
        /\ segDisp[s].scheduled \in Nat /\ Taken(s) \in Int /\ queued \in Nat
        /\ Handing(s) \in {0, 1}
    <2>1. segDisp[s].scheduled = Taken(s) + queued + Handing(s)
      BY DEF ScheduledInv
    <2>2. segDisp[s].scheduled \in Nat /\ Taken(s) \in Int
      BY <1>0, TakenStep, DispatchCountFacts
    <2>3. queued \in Nat
      <3>1. [segment |-> seg, offset |-> 0] \in JobSet
        BY <1>0
      <3> HIDE DEF JobSet
      <3>2. QED
        BY <1>0, <3>1, QueueSend
    <2>4. Handing(s) \in {0, 1}
      BY DEF Handing
    <2>5. QED
      BY <2>1, <2>2, <2>3, <2>4
  <1> HIDE DEF queued
  <1>3. CASE PlanTick \/ Drop
    <2>1. /\ UNCHANGED <<jobs, seg>> /\ \A w \in Workers : ~Receive(w)
          /\ Handing(s)' = Handing(s)
      <3>1. UNCHANGED <<jobs, seg, wpc>> /\ pc' \in {"admit", "loop"} /\ pc \in {"stamp", "admit"}
        BY <1>3 DEF PlanTick, Drop, paceVars, chanVars, workerVars
      <3>2. \A w \in Workers : ~Receive(w)
        BY <1>0, <3>1 DEF Receive, TypeOK
      <3>3. Handing(s)' = Handing(s)
        BY <3>1 DEF Handing
      <3>4. QED
        BY <3>1, <3>2, <3>3
    <2>2. segDisp'[s].scheduled = segDisp[s].scheduled
      <3>1. segDisp'[s] \in {segDisp[s], CountPlanned(segDisp[s]), CountDropped(segDisp[s])}
        BY <1>0, <1>3 DEF PlanTick, Drop
      <3>2. QED
        BY <1>0, <3>1, DispatchCountFacts
    <2>3. QED
      BY <1>2, <2>1, <2>2, TakenStep DEF queued
  <1>4. CASE Admit
    <2>1. /\ UNCHANGED <<jobs, seg, wpc>> /\ pc = "admit" /\ pc' = "reserve"
          /\ segDisp' = [segDisp EXCEPT ![seg] = CountScheduled(@)]
      BY <1>4 DEF Admit, paceVars, chanVars, workerVars
    <2>2. \A w \in Workers : ~Receive(w)
      BY <1>0, <2>1 DEF Receive, TypeOK
    <2>3. Handing(s) = 0 /\ Handing(s)' = IF s = seg THEN 1 ELSE 0
      BY <2>1 DEF Handing
    <2>4. segDisp'[s].scheduled = segDisp[s].scheduled + (IF s = seg THEN 1 ELSE 0)
      <3>1. segDisp'[s] = IF s = seg THEN CountScheduled(segDisp[s]) ELSE segDisp[s]
        BY <1>0, <2>1
      <3>2. QED
        BY <1>0, <1>2, <3>1, DispatchCountFacts
    <2>5. QED
      BY <1>2, <2>1, <2>2, <2>3, <2>4, TakenStep DEF queued
  <1>5. CASE Send
    <2> DEFINE e == [segment |-> seg, offset |-> offset]
    <2>1. /\ UNCHANGED <<segDisp, seg, wpc>> /\ pc = "send" /\ pc' = "loop"
          /\ jobs' = Append(jobs, e)
      BY <1>5 DEF Send, paceVars, countVars, workerVars
    <2>2. \A w \in Workers : ~Receive(w)
      BY <1>0, <2>1 DEF Receive, TypeOK
    <2>3. Handing(s)' = 0 /\ Handing(s) = IF s = seg THEN 1 ELSE 0
      BY <2>1 DEF Handing
    <2>4. Cardinality(QueuedAt(jobs', s)) = queued + (IF s = seg THEN 1 ELSE 0)
      <3>1. e \in JobSet /\ e.segment = seg
        BY <1>0 DEF TypeOK
      <3> HIDE DEF JobSet, e
      <3>2. QED
        BY <1>0, <2>1, <3>1, QueueSend DEF queued
    <2>5. QED
      BY <1>2, <2>1, <2>2, <2>3, <2>4, TakenStep
  <1>6. ASSUME NEW w \in Workers, Receive(w)
        PROVE  segDisp'[s].scheduled = Taken(s)' + Cardinality(QueuedAt(jobs', s)) + Handing(s)'
    <2>1. UNCHANGED <<segDisp, seg, pc>> /\ jobs # <<>> /\ jobs' = Tail(jobs)
      BY <1>6 DEF Receive, paceVars, countVars
    <2>2. Handing(s)' = Handing(s)
      BY <2>1 DEF Handing
    <2>3. Cardinality(QueuedAt(jobs', s)) = queued - (IF Head(jobs).segment = s THEN 1 ELSE 0)
      <3> HIDE DEF JobSet
      <3>1. QED
        BY <1>0, <2>1, QueueReceive DEF queued
    <2>4. Taken(s)' = Taken(s) + (IF Head(jobs).segment = s THEN 1 ELSE 0)
      BY <1>6, TakenStep
    <2>5. QED
      BY <1>2, <2>1, <2>2, <2>3, <2>4
  <1>7. CASE /\ ~PlanTick /\ ~Drop /\ ~Admit /\ ~Send /\ \A w \in Workers : ~Receive(w)
    <2>1. UNCHANGED <<jobs, segDisp>> /\ Handing(s)' = Handing(s)
      BY <1>7, HandingKept
    <2>2. Taken(s)' = Taken(s)
      BY <1>7, TakenStep
    <2>3. QED
      BY <1>2, <2>1, <2>2 DEF queued
  <1>8. QED
    BY <1>3, <1>4, <1>5, <1>6, <1>7

-----------------------------------------------------------------------------
(* The report: every started request returns.                               *)

Pending(w) == IF wpc[w] \in {"exec", "record"} THEN 1 ELSE 0

\* Whatever is started is completed, canceled or still pending, in a worker's
\* run-wide counters and in the ones it holds; what is collected has returned.
StartedInv ==
    /\ \A w \in Workers :
           /\ overall[w].started = overall[w].completed + overall[w].canceled + Pending(w)
           /\ Held[w].started = Held[w].completed + Held[w].canceled + Pending(w)
    /\ \A s \in DOMAIN profile :
           collected[s].started = collected[s].completed + collected[s].canceled

\* Moving the three counters of worker w by as much as its pending request
\* changes keeps that so, if a flush happens only with no request pending.
LEMMA MoveKeepsStarted ==
    ASSUME TypeOK, ThrottleInv, StartedInv, NEW w \in Workers,
           NEW a \in Nat, NEW b \in Nat, NEW c \in Nat, NEW flushes \in BOOLEAN,
           CountMove(w, "started", a, flushes), CountMove(w, "completed", b, flushes),
           CountMove(w, "canceled", c, flushes),
           Pending(w) + a = Pending(w)' + b + c,
           flushes => Active(w) /\ Pending(w) = 0,
           \A u \in Workers \ {w} : Pending(u)' = Pending(u)
    PROVE  StartedInv'
  <1>0. /\ CountFields = {"started", "completed", "canceled"} /\ profile' = profile
        /\ Pending(w) \in {0, 1} /\ Pending(w)' \in {0, 1}
    BY DEF CountFields, CountMove, Pending
  <1>1. ASSUME NEW u \in Workers
        PROVE  /\ overall'[u].started = overall'[u].completed + overall'[u].canceled + Pending(u)'
               /\ Held'[u].started = Held'[u].completed + Held'[u].canceled + Pending(u)'
    <2>1. CASE u # w
      <3>1. overall'[u] = overall[u] /\ Held'[u] = Held[u] /\ Pending(u)' = Pending(u)
        BY <2>1 DEF CountMove
      <3>2. QED
        BY <3>1 DEF StartedInv
    <2>2. CASE u = w
      <3>1. /\ overall[w].started \in Nat /\ overall[w].completed \in Nat /\ overall[w].canceled \in Nat
            /\ Held[w].started \in Nat /\ Held[w].completed \in Nat /\ Held[w].canceled \in Nat
        BY <1>0, HeldFacts
      <3>2. /\ overall[w].started = overall[w].completed + overall[w].canceled + Pending(w)
            /\ Held[w].started = Held[w].completed + Held[w].canceled + Pending(w)
        BY DEF StartedInv
      <3>3. /\ overall'[w].started = overall[w].started + a
            /\ overall'[w].completed = overall[w].completed + b
            /\ overall'[w].canceled = overall[w].canceled + c
        BY DEF CountMove
      <3>4. overall'[w].started = overall'[w].completed + overall'[w].canceled + Pending(w)'
        BY <1>0, <3>1, <3>2, <3>3
      <3>5. CASE flushes
        <4>1. Held'[w].started = a /\ Held'[w].completed = b /\ Held'[w].canceled = c
          BY <3>5 DEF CountMove
        <4>2. QED
          BY <1>0, <2>2, <3>4, <3>5, <4>1
      <3>6. CASE ~flushes
        <4>1. /\ Held'[w].started = Held[w].started + a
              /\ Held'[w].completed = Held[w].completed + b
              /\ Held'[w].canceled = Held[w].canceled + c
          BY <3>6 DEF CountMove
        <4>2. Held[w].started + a = (Held[w].completed + b) + (Held[w].canceled + c) + Pending(w)'
          <5> DEFINE x == Held[w].started
                     y == Held[w].completed
                     z == Held[w].canceled
          <5>1. x \in Nat /\ y \in Nat /\ z \in Nat /\ x = y + z + Pending(w)
            BY <3>1, <3>2
          <5> HIDE DEF x, y, z
          <5>2. x + a = (y + b) + (z + c) + Pending(w)'
            BY <1>0, <5>1
          <5>3. QED
            BY <5>2 DEF x, y, z
        <4>3. Held'[w].started = Held'[w].completed + Held'[w].canceled + Pending(w)'
          BY ONLY <4>1, <4>2
        <4>4. QED
          BY <2>2, <3>4, <4>3
      <3>7. QED
        BY <3>5, <3>6
    <2>3. QED
      BY <2>1, <2>2
  <1>2. ASSUME NEW s \in DOMAIN profile
        PROVE  collected'[s].started = collected'[s].completed + collected'[s].canceled
    <2>1. collected[s].started = collected[s].completed + collected[s].canceled
      BY DEF StartedInv
    <2>2. CASE ~flushes
      <3>1. collected' = collected
        BY <2>2 DEF CountMove
      <3>2. QED
        BY <2>1, <3>1
    <2>3. CASE flushes
      <3>1. collected' = Flushed(w) /\ Active(w) /\ Pending(w) = 0
        BY <2>3 DEF CountMove
      <3>2. \A counter \in CountFields :
               collected'[s][counter] = collected[s][counter] + HeldFor(s)[w][counter]
        BY <3>1, FlushAdds
      <3>3. /\ collected'[s].started = collected[s].started + HeldFor(s)[w].started
            /\ collected'[s].completed = collected[s].completed + HeldFor(s)[w].completed
            /\ collected'[s].canceled = collected[s].canceled + HeldFor(s)[w].canceled
        BY <1>0, <3>2
      <3>4. /\ collected[s].started \in Nat /\ collected[s].completed \in Nat
            /\ collected[s].canceled \in Nat
            /\ HeldFor(s)[w].completed \in Nat /\ HeldFor(s)[w].canceled \in Nat
        BY <1>0, HeldFacts
      <3>5. HeldFor(s)[w].started = HeldFor(s)[w].completed + HeldFor(s)[w].canceled
        <4>1. CASE wseg[w] = s
          <5>1. HeldFor(s)[w] = current[w] /\ Held[w] = current[w]
            BY <1>0, <3>1, <4>1, HeldFacts
          <5>2. Held[w].started = Held[w].completed + Held[w].canceled + Pending(w)
            BY DEF StartedInv
          <5>3. QED
            BY <3>1, <3>4, <5>1, <5>2
        <4>2. CASE wseg[w] # s
          <5>1. HeldFor(s)[w].started = 0 /\ HeldFor(s)[w].completed = 0 /\ HeldFor(s)[w].canceled = 0
            BY <1>0, <4>2, HeldFacts
          <5>2. QED
            BY <5>1
        <4>3. QED
          BY <4>1, <4>2
      <3>6. QED
        BY <2>1, <3>3, <3>4, <3>5
    <2>4. QED
      BY <2>2, <2>3
  <1>3. QED
    BY <1>0, <1>1, <1>2 DEF StartedInv

\* Every step keeps the balance of started and returned requests.
LEMMA StartedStep ==
    ASSUME AccountInv, MergedInv, ThrottleInv, StartedInv, [Next]_vars
    PROVE  StartedInv'
  <1>0. /\ TypeOK /\ "started" \in CountFields /\ "completed" \in CountFields
        /\ "canceled" \in CountFields
    BY DEF AccountInv, CountFields
  <1>1. CASE Elsewhere \/ Reserve \/ RecordPeak \/ Send \/ UNCHANGED vars
    <2>1. UNCHANGED <<overall, collected, profile, wpc>> /\ Held' = Held
      BY <1>1, CountsKept DEF Held, Active
    <2>2. QED
      BY <2>1 DEF StartedInv, Pending
  <1>2. CASE Start
    <2>1. UNCHANGED <<profile, overall, collected>> /\ \A w \in Workers : Held'[w] = Held[w]
      BY <1>2, StartHolds
    <2>2. \A w \in Workers : Pending(w)' = Pending(w)
      BY <1>2 DEF Start, AccountInv, WorkersLeave, WorkersDone, Pending
    <2>3. QED
      BY <2>1, <2>2 DEF StartedInv
  <1>3. ASSUME NEW w \in Workers, Receive(w)
        PROVE  StartedInv'
    <2> DEFINE flushes == Head(jobs).segment # wseg[w]
    <2>1. /\ StartedBy("started") = 1 /\ StartedBy("completed") = 0 /\ StartedBy("canceled") = 0
          /\ flushes \in BOOLEAN
      BY DEF StartedBy
    <2>2. /\ Active(w) /\ CountMove(w, "started", 1, flushes)
          /\ CountMove(w, "completed", 0, flushes) /\ CountMove(w, "canceled", 0, flushes)
      BY <1>0, <1>3, <2>1, ReceiveMoves
    <2>3. /\ Pending(w) = 0 /\ Pending(w)' = 1
          /\ \A u \in Workers \ {w} : Pending(u)' = Pending(u)
      BY <1>0, <1>3 DEF Receive, TypeOK, Pending
    <2> HIDE DEF flushes
    <2>4. QED
      BY <1>0, <2>1, <2>2, <2>3, MoveKeepsStarted
  <1>4. ASSUME NEW w \in Workers, Record(w)
        PROVE  StartedInv'
    <2> DEFINE b == ReturnedBy(outcome[w], "completed")
               c == ReturnedBy(outcome[w], "canceled")
    <2>1. /\ ReturnedBy(outcome[w], "started") = 0 /\ b \in Nat /\ c \in Nat /\ b + c = 1
      BY DEF ReturnedBy
    <2>2. /\ CountMove(w, "started", 0, FALSE)
          /\ CountMove(w, "completed", b, FALSE) /\ CountMove(w, "canceled", c, FALSE)
      BY <1>0, <1>4, <2>1, RecordMoves
    <2>3. /\ Pending(w) = 1 /\ Pending(w)' = 0
          /\ \A u \in Workers \ {w} : Pending(u)' = Pending(u)
      BY <1>0, <1>4 DEF Record, TypeOK, Pending
    <2> HIDE DEF b, c
    <2>4. Pending(w) + 0 = Pending(w)' + b + c
      BY <2>1, <2>3
    <2>5. QED
      BY <1>0, <2>1, <2>2, <2>3, <2>4, MoveKeepsStarted
  <1>5. ASSUME NEW w \in Workers, LeaveLoop(w) \/ Done(w) \/ \E o \in Outcomes : FinishRequest(w, o)
        PROVE  StartedInv'
    <2>1. /\ \A u \in Workers : Pending(u)' = Pending(u)
          /\ Pending(w) \in {0, 1}
          /\ LeaveLoop(w) => Pending(w) = 0
      BY <1>0, <1>5 DEF LeaveLoop, Done, FinishRequest, TypeOK, Pending
    <2>2. Pending(w) + 0 = Pending(w)' + 0 + 0
      BY <2>1
    <2>3. CASE LeaveLoop(w)
      <3>1. /\ Active(w) /\ CountMove(w, "started", 0, TRUE)
            /\ CountMove(w, "completed", 0, TRUE) /\ CountMove(w, "canceled", 0, TRUE)
        BY <1>0, <2>3, OtherMoves
      <3>2. QED
        BY <1>0, <2>1, <2>2, <2>3, <3>1, MoveKeepsStarted
    <2>4. CASE Done(w) \/ \E o \in Outcomes : FinishRequest(w, o)
      <3>1. /\ CountMove(w, "started", 0, FALSE)
            /\ CountMove(w, "completed", 0, FALSE) /\ CountMove(w, "canceled", 0, FALSE)
        BY <1>0, <2>4, OtherMoves
      <3>2. QED
        BY <1>0, <2>1, <2>2, <3>1, MoveKeepsStarted
    <2>5. QED
      BY <1>5, <2>3, <2>4
  <1>6. QED
    BY <1>1, <1>2, <1>3, <1>4, <1>5, NextCases

ReportInv == PlannedInv /\ SegmentsAddUp /\ FlushInv /\ ScheduledInv /\ StartedInv

\* A run starts with empty books.
LEMMA ReportInit == Init => ReportInv
  <1> SUFFICES ASSUME Init PROVE ReportInv
    OBVIOUS
  <1> DEFINE D == DOMAIN profile
  <1>0. TypeOK /\ IsFiniteSet(Workers) /\ IsFiniteSet(D)
    BY TypeInit, SegmentsFinite, WorkersAssumption
  <1>1. /\ disp = NoDispatch /\ \A s \in D : segDisp[s] = NoDispatch
        /\ NoDispatch.planned = 0 /\ NoDispatch.scheduled = 0 /\ NoDispatch.dropped = 0
    BY DEF Init, NoDispatch
  <1>2. \A s \in D : segDisp[s].planned = 0 /\ segDisp[s].scheduled = 0 /\ segDisp[s].dropped = 0
    BY <1>1
  <1>3. PlannedInv
    BY <1>1, <1>2 DEF PlannedInv, Init
  <1>4. SegmentsAddUp
    <2> HIDE DEF D
    <2>1. /\ FieldSum(segDisp, "planned", D) = 0 /\ FieldSum(segDisp, "scheduled", D) = 0
          /\ FieldSum(segDisp, "dropped", D) = 0
      BY <1>0, <1>2, FieldSumFacts
    <2>2. QED
      BY <1>1, <2>1 DEF SegmentsAddUp, D
  <1>5. /\ \A w \in Workers : ~Active(w) /\ Pending(w) = 0 /\ overall[w] = NoCounts
        /\ \A s \in D : collected[s] = NoCounts
    BY DEF Init, Active, Pending
  <1>6. \A counter \in CountFields :
           /\ \A w \in Workers : /\ overall[w][counter] = 0 /\ Held[w][counter] = 0
                                 /\ \A s : HeldFor(s)[w][counter] = 0
           /\ \A s \in D : collected[s][counter] = 0
    <2>1. \A counter \in CountFields : NoCounts[counter] = 0
      BY CountFacts
    <2>2. QED
      BY <1>0, <1>5, <2>1, HeldFacts
  <1>7. FlushInv
    <2> SUFFICES ASSUME NEW counter \in CountFields PROVE FlushedCount(counter)
      BY DEF FlushInv
    <2> HIDE DEF D
    <2>1. /\ FieldSum(overall, counter, Workers) = 0 /\ FieldSum(Held, counter, Workers) = 0
          /\ FieldSum(collected, counter, D) = 0
      BY <1>0, <1>6, FieldSumFacts
    <2>2. QED
      BY <2>1 DEF FlushedCount, D
  <1>8. ScheduledInv
    <2> SUFFICES ASSUME NEW s \in D
                 PROVE  segDisp[s].scheduled = Taken(s) + Cardinality(QueuedAt(jobs, s)) + Handing(s)
      BY DEF ScheduledInv
    <2>1. "started" \in CountFields
      BY DEF CountFields
    <2>2. FieldSum(HeldFor(s), "started", Workers) = 0 /\ collected[s].started = 0
      BY <1>0, <1>6, <2>1, FieldSumFacts
    <2>3. Cardinality(QueuedAt(jobs, s)) = 0
      <3>1. QueuedAt(jobs, s) = {}
        BY DEF Init, QueuedAt
      <3>2. QED
        BY <3>1, FS_EmptySet
    <2>4. Handing(s) = 0
      BY DEF Init, Handing
    <2>5. QED
      BY <1>2, <2>2, <2>3, <2>4 DEF Taken
  <1>9. StartedInv
    <2>1. "started" \in CountFields /\ "completed" \in CountFields /\ "canceled" \in CountFields
      BY DEF CountFields
    <2>2. QED
      BY <1>5, <1>6, <2>1 DEF StartedInv
  <1>10. QED
    BY <1>3, <1>4, <1>7, <1>8, <1>9 DEF ReportInv

\* The books stay in order throughout a run.
THEOREM Bookkeeping == Spec => []ReportInv
  <1>1. /\ AccountInv /\ ThrottleInv /\ MergedInv /\ ReportInv /\ [Next]_vars => ReportInv'
    BY DispatchStep, FlushStep, ScheduledStep, StartedStep DEF ReportInv, AccountInv
  <1>2. QED
    BY <1>1, ReportInit, Accounting, Throttling, PTL DEF Spec

\* What Run returns reconciles for every worker pool, profile and interleaving:
\* for the run and for each segment, planned is scheduled plus dropped, scheduled
\* is started and started is completed plus canceled, and the segments add up to
\* the run (Run's deferred flushes, segmentCollector, metrics.MergeWorkers).
THEOREM ReportIsExact == Spec => []ReportReconciles
  <1>1. ASSUME AccountInv, MergedInv, ReportInv
        PROVE  ReportReconciles
    <2> SUFFICES ASSUME pc = "returned", ~runErr
                 PROVE  /\ Balanced(result.overall)
                        /\ \A s \in DOMAIN profile : Balanced(result.segments[s])
                        /\ \A field \in {"planned", "scheduled", "dropped", "started",
                                         "completed", "canceled"} :
                               SumOver(field) = result.overall[field]
      BY DEF ReportReconciles
    <2> DEFINE D == DOMAIN profile
               segments == result.segments
    <2>0. /\ TypeOK /\ IsFiniteSet(Workers) /\ IsFiniteSet(D)
          /\ "started" \in CountFields /\ "completed" \in CountFields /\ "canceled" \in CountFields
      BY <1>1, WorkersAssumption, SegmentsFinite DEF AccountInv, CountFields
    <2>1. /\ \A w \in Workers : ~Active(w) /\ Pending(w) = 0
          /\ jobs = <<>>
      BY <1>1, WorkersAssumption DEF AccountInv, WorkersLeave, WorkersDone, Active, Pending
    \* what was returned
    <2>2. /\ \A s \in D : segments[s] = Report(segDisp[s], collected[s])
          /\ result.overall = Report(disp, AllWorkers)
      BY <1>1 DEF MergedInv
    <2>3. /\ \A s \in D : /\ segments[s].planned = segDisp[s].planned
                          /\ segments[s].scheduled = segDisp[s].scheduled
                          /\ segments[s].dropped = segDisp[s].dropped
                          /\ segments[s].started = collected[s].started
                          /\ segments[s].completed = collected[s].completed
                          /\ segments[s].canceled = collected[s].canceled
          /\ result.overall.planned = disp.planned
          /\ result.overall.scheduled = disp.scheduled
          /\ result.overall.dropped = disp.dropped
          /\ result.overall.started = Total("started")
          /\ result.overall.completed = Total("completed")
          /\ result.overall.canceled = Total("canceled")
      <3>1. \A d, c : /\ Report(d, c).planned = d.planned /\ Report(d, c).scheduled = d.scheduled
                      /\ Report(d, c).dropped = d.dropped /\ Report(d, c).started = c.started
                      /\ Report(d, c).completed = c.completed
                      /\ Report(d, c).canceled = c.canceled
        BY DEF Report
      <3>2. /\ AllWorkers.started = Total("started") /\ AllWorkers.completed = Total("completed")
            /\ AllWorkers.canceled = Total("canceled")
        BY DEF AllWorkers
      <3>3. QED
        BY <2>2, <3>1, <3>2
    <2>4. \A counter : Total(counter) = FieldSum(overall, counter, Workers)
      BY DEF Total, FieldSum
    <2>5. \A field : SumOver(field) = FieldSum(segments, field, D)
      BY DEF SumOver, FieldSum
    \* each segment balances
    <2>6. /\ disp.planned \in Nat /\ disp.scheduled \in Nat /\ disp.dropped \in Nat
          /\ \A s \in D : /\ segDisp[s].planned \in Nat /\ segDisp[s].scheduled \in Nat
                          /\ segDisp[s].dropped \in Nat
      BY <2>0, DispatchCountFacts DEF TypeOK
    <2>7. /\ disp.planned = disp.scheduled + disp.dropped
          /\ \A s \in D : segDisp[s].planned = segDisp[s].scheduled + segDisp[s].dropped
      BY <1>1, <2>6 DEF ReportInv, PlannedInv
    <2>8. /\ \A s \in D : /\ collected[s].started \in Nat /\ collected[s].completed \in Nat
                          /\ collected[s].canceled \in Nat
          /\ \A w \in Workers : /\ overall[w].started \in Nat /\ overall[w].completed \in Nat
                                /\ overall[w].canceled \in Nat
      BY <2>0, HeldFacts
    <2>9. /\ \A s \in D : collected[s].started = collected[s].completed + collected[s].canceled
          /\ \A w \in Workers : overall[w].started = overall[w].completed + overall[w].canceled
      BY <1>1, <2>1, <2>8 DEF ReportInv, StartedInv
    <2>10. ASSUME NEW s \in D
           PROVE  segDisp[s].scheduled = collected[s].started
      <3>1. segDisp[s].scheduled = Taken(s) + Cardinality(QueuedAt(jobs, s)) + Handing(s)
        BY <1>1 DEF ReportInv, ScheduledInv
      <3>2. FieldSum(HeldFor(s), "started", Workers) = 0
        <4>1. \A w \in Workers : HeldFor(s)[w]["started"] = 0
          BY <2>0, <2>1, HeldFacts
        <4>2. QED
          BY <2>0, <4>1, FieldSumFacts
      <3>3. Cardinality(QueuedAt(jobs, s)) = 0
        <4>1. QueuedAt(jobs, s) = {}
          BY <2>1 DEF QueuedAt
        <4>2. QED
          BY <4>1, FS_EmptySet
      <3>4. Handing(s) = 0
        BY DEF Handing
      <3>5. QED
        BY <2>8, <3>1, <3>2, <3>3, <3>4 DEF Taken
    <2>11. \A s \in D : Balanced(segments[s])
      BY <2>3, <2>7, <2>9, <2>10 DEF Balanced
    \* the segments add up
    <2>12. \A counter \in CountFields :
              FieldSum(overall, counter, Workers) = FieldSum(collected, counter, D)
      <3> SUFFICES ASSUME NEW counter \in CountFields
                   PROVE  FieldSum(overall, counter, Workers) = FieldSum(collected, counter, D)
        OBVIOUS
      <3>1. FlushedCount(counter)
        BY <1>1 DEF ReportInv, FlushInv
      <3>2. FieldSum(Held, counter, Workers) = 0
        <4>1. \A w \in Workers : Held[w][counter] = 0
          BY <2>0, <2>1, HeldFacts
        <4>2. QED
          BY <2>0, <4>1, FieldSumFacts
      <3>3. FieldSum(collected, counter, D) \in Int
        <4>1. \A s \in D : collected[s][counter] \in Int
          BY <2>0, HeldFacts
        <4> HIDE DEF D
        <4>2. QED
          BY <2>0, <4>1, FieldSumFacts
      <3>4. QED
        BY <3>1, <3>2, <3>3 DEF FlushedCount
    <2>13. /\ FieldSum(segments, "planned", D) = disp.planned
           /\ FieldSum(segments, "scheduled", D) = disp.scheduled
           /\ FieldSum(segments, "dropped", D) = disp.dropped
      <3>1. /\ FieldSum(segDisp, "planned", D) = disp.planned
            /\ FieldSum(segDisp, "scheduled", D) = disp.scheduled
            /\ FieldSum(segDisp, "dropped", D) = disp.dropped
        BY <1>1 DEF ReportInv, SegmentsAddUp
      <3> HIDE DEF D, segments
      <3>2. /\ FieldSum(segments, "planned", D) = FieldSum(segDisp, "planned", D)
            /\ FieldSum(segments, "scheduled", D) = FieldSum(segDisp, "scheduled", D)
            /\ FieldSum(segments, "dropped", D) = FieldSum(segDisp, "dropped", D)
        BY <2>0, <2>3, <2>6, FieldSumSame
      <3>3. QED
        BY <3>1, <3>2
    <2>14. /\ FieldSum(segments, "started", D) = Total("started")
           /\ FieldSum(segments, "completed", D) = Total("completed")
           /\ FieldSum(segments, "canceled", D) = Total("canceled")
      <3> HIDE DEF D, segments
      <3>1. /\ FieldSum(segments, "started", D) = FieldSum(collected, "started", D)
            /\ FieldSum(segments, "completed", D) = FieldSum(collected, "completed", D)
            /\ FieldSum(segments, "canceled", D) = FieldSum(collected, "canceled", D)
        BY <2>0, <2>3, <2>8, FieldSumSame
      <3>2. QED
        BY <2>0, <2>4, <2>12, <3>1
    <2>15. \A field \in {"planned", "scheduled", "dropped", "started", "completed", "canceled"} :
              SumOver(field) = result.overall[field]
      BY <2>3, <2>5, <2>13, <2>14
    \* the run balances
    <2>16. disp.scheduled = Total("started")
      <3>1. FieldSum(segments, "scheduled", D) = FieldSum(segments, "started", D)
        <4>1. \A s \in D : segments[s]["started"] \in Int /\ segments[s]["scheduled"] = segments[s]["started"]
          BY <2>3, <2>8, <2>10
        <4> HIDE DEF D, segments
        <4>2. QED
          BY <2>0, <4>1, FieldSumSame
      <3>2. QED
        BY <2>13, <2>14, <3>1
    <2>17. Total("started") = Total("completed") + Total("canceled")
      <3>1. FieldSum(overall, "started", Workers) =
                FieldSum(overall, "completed", Workers) + FieldSum(overall, "canceled", Workers)
        BY <2>0, <2>8, <2>9, FieldSumAdd
      <3>2. QED
        BY <2>4, <3>1
    <2>18. Balanced(result.overall)
      BY <2>3, <2>7, <2>16, <2>17 DEF Balanced
    <2>19. QED
      BY <2>11, <2>15, <2>18
  <1>2. QED
    BY <1>1, Accounting, Throttling, Bookkeeping, PTL

=============================================================================
