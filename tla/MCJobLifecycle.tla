--------------------------- MODULE MCJobLifecycle ---------------------------
(* Small instances of JobLifecycle for TLC. *)
EXTENDS JobLifecycle

CONSTANTS j1, j2

OneJob   == {j1}
TwoJobs  == {j1, j2}
NoJob    == {}
AllCalls == {"cancel", "delete", "clear"}
Removals == {"delete", "clear"}
=============================================================================
