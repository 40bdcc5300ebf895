--------------------------- MODULE MCOpenScheduler ---------------------------
(* Small instances of OpenScheduler for TLC. *)
EXTENDS OpenScheduler, TLC

Segment(stage, start, end, interval) ==
    [stage |-> stage, start |-> start, end |-> end, interval |-> interval]

\* Warm-up, measured and cool-down at two rates: workers cross segments.
MCStaged == << Segment("warmup", 0, 1, 1), Segment("measured", 1, 3, 2), Segment("cooldown", 3, 4, 1) >>

\* One measured segment with more requests than workers, long enough for a late
\* tick to reset the pace.
MCSteady == << Segment("measured", 0, 3, 1) >>

\* Profiles that config validation rejects but NewOpenScheduler accepts.
MCBadOrder == << Segment("measured", 0, 1, 1), Segment("warmup", 1, 2, 1) >>
MCBadFirst == << Segment("cooldown", 0, 1, 1) >>

\* The shortest profile that overfills two workers.
MCShort == << Segment("measured", 0, 2, 1) >>

MCProfiles == {MCSteady, MCStaged, MCBadFirst, MCBadOrder}
MCLiveProfiles == {MCShort, MCBadOrder}

Symmetry == Permutations(Workers)
=============================================================================
