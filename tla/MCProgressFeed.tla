--------------------------- MODULE MCProgressFeed ---------------------------
(* Small instances of ProgressFeed for TLC. *)
EXTENDS ProgressFeed

CONSTANTS j1, j2, c1

OneJob    == {j1}
TwoJobs   == {j1, j2}
OneClient == {c1}
=============================================================================
