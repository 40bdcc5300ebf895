--------------------------- MODULE CompiledProfile ---------------------------
(***************************************************************************)
(* What the open-model scheduler reads of a compiled load profile, and     *)
(* what it takes for granted about one (internal/scheduler/open.go:205):   *)
(* the scheduler never looks for a gap, an empty segment or an interval of *)
(* zero, it relies on profile.Compile.                                     *)
(***************************************************************************)
EXTENDS Integers, Sequences

Stages == {"warmup", "measured", "cooldown"}

Segments == [stage : Stages, start : Nat, end : Nat, interval : Nat \ {0}]

\* At least one segment, contiguous from offset 0, no empty segment and no
\* zero interval
WellFormed(p) ==
    /\ p \in Seq(Segments) /\ p # <<>>
    /\ p[1].start = 0
    /\ \A i \in DOMAIN p : p[i].start < p[i].end
    /\ \A i \in DOMAIN p : i > 1 => p[i].start = p[i - 1].end

=============================================================================
