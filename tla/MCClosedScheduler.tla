-------------------------- MODULE MCClosedScheduler --------------------------
(* Small instances of ClosedScheduler for TLC. *)
EXTENDS ClosedScheduler

Step(onFailure, think) == [onFailure |-> onFailure, think |-> think]

\* Single requests; a scenario with a think time between steps, with every
\* failure policy between them; a one-step scenario.
MCScenarios ==
    { <<>>,
      << Step("continue", TRUE), Step("abort_vu", FALSE) >>,
      << Step("stop", TRUE) >> }
=============================================================================
