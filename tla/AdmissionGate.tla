---------------------------- MODULE AdmissionGate ----------------------------
(***************************************************************************)
(* What both schedulers promise about admission, with neither clock,       *)
(* channel nor goroutines: a request is admitted when fewer than           *)
(* MaxInFlight admitted requests are outstanding, and dropped only when    *)
(* exactly MaxInFlight are (README.md:86, "Enforces max_in_flight bounds   *)
(* and tracks dropped work explicitly"; the closed model, whose bound is   *)
(* its number of users, never drops); the run ends only after admission    *)
(* has closed and every admitted request has finished.                     *)
(***************************************************************************)
EXTENDS Naturals

CONSTANT MaxInFlight

VARIABLES admitted, dropped, finished, open, ended

gateVars == <<admitted, dropped, finished, open, ended>>

Outstanding == admitted - finished

Init ==
    /\ admitted = 0 /\ dropped = 0 /\ finished = 0
    /\ open = TRUE
    /\ ended = FALSE

Admit ==
    /\ open
    /\ Outstanding < MaxInFlight
    /\ admitted' = admitted + 1
    /\ UNCHANGED <<dropped, finished, open, ended>>

Drop ==
    /\ open
    /\ Outstanding = MaxInFlight
    /\ dropped' = dropped + 1
    /\ UNCHANGED <<admitted, finished, open, ended>>

Finish ==
    /\ Outstanding > 0
    /\ finished' = finished + 1
    /\ UNCHANGED <<admitted, dropped, open, ended>>

Close ==
    /\ open
    /\ open' = FALSE
    /\ UNCHANGED <<admitted, dropped, finished, ended>>

End ==
    /\ ~open /\ ~ended
    /\ Outstanding = 0
    /\ ended' = TRUE
    /\ UNCHANGED <<admitted, dropped, finished, open>>

Next == Admit \/ Drop \/ Finish \/ Close \/ End

Spec == Init /\ [][Next]_gateVars

=============================================================================
