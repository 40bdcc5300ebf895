--------------------------- MODULE MCHealthSampler ---------------------------
(* HealthSampler for TLC: lags below, at and above the limit, where the last *)
(* unit is cut off, and counts below, at and above theirs.                   *)
EXTENDS HealthSampler
=============================================================================
