----------------------------- MODULE MCGpuSpend -----------------------------
(* Small instances of GpuSpend for TLC. *)
EXTENDS GpuSpend

CONSTANTS job, other, rebuild

JobAndRebuild == {job, rebuild}
TwoJobs       == {job, other}
OneJob        == {job}
OnlyRebuild   == {rebuild}
NoRebuild     == {}
Once          == [c \in Songs |-> 1]
=============================================================================
