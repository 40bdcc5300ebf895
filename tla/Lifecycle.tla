------------------------------ MODULE Lifecycle ------------------------------
(***************************************************************************)
(* The lifecycle of one load test run (internal/core/lifecycle.go): the    *)
(* states and the transition table that both schedulers drive through      *)
(* LifecycleStateMachine.  The machine is guarded by a mutex, so a         *)
(* TransitionTo is one atomic step of its caller.                          *)
(***************************************************************************)

LifecycleStates ==
    {"initialized", "warmup", "running", "cooldown", "graceful_stop", "canceled", "completed"}

\* The states a legal transition from s may lead to; none leads out of "completed".
Successors(s) ==
    CASE s = "initialized"   -> {"warmup", "running", "canceled"}
      [] s = "warmup"        -> {"running", "graceful_stop", "canceled"}
      [] s = "running"       -> {"cooldown", "graceful_stop", "canceled", "completed"}
      [] s = "cooldown"      -> {"graceful_stop", "canceled"}
      [] s = "graceful_stop" -> {"completed", "canceled"}
      [] s = "canceled"      -> {"completed"}
      [] OTHER               -> {}

CanTransitionTo_NoDrainCancel(s, next) ==
    next \in Successors(s) /\ ~(s = "graceful_stop" /\ next = "canceled")
CanTransitionTo(s, next) == next \in Successors(s)

\* The state after a TransitionTo whose error the caller ignores: a refused
\* transition leaves the machine where it was.
TransitionTo(s, next) == IF CanTransitionTo(s, next) THEN next ELSE s

=============================================================================
