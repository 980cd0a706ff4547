----------------------------- MODULE JobPromise -----------------------------
(***************************************************************************)
(* What the coordinator promises about the fate of a job, whatever its     *)
(* handlers, worker and restarts do: a job is unborn, live, ended or gone; *)
(* it leaves "ended" for "live" only through a writer that had opened its  *)
(* transaction before the job ended, and nothing brings back a job that is *)
(* gone.                                                                   *)
(***************************************************************************)
CONSTANT Jobs

VARIABLES
  phase,   \* "unborn", "live", "ended" or "gone"
  late     \* ended jobs that a transaction opened earlier may still write

promise == <<phase, late>>

PromiseInit ==
  /\ phase = [j \in Jobs |-> "unborn"]
  /\ late = {}

Begin(j) ==
  /\ phase[j] = "unborn"
  /\ phase' = [phase EXCEPT ![j] = "live"]
  /\ UNCHANGED late

\* The job ends; a transaction open on it at that moment may still commit.
End(j) ==
  /\ phase[j] = "live"
  /\ phase' = [phase EXCEPT ![j] = "ended"]
  /\ late' \in {late, late \cup {j}}

\* A late transaction commits over the end, or goes away.
Reopen(j) ==
  /\ j \in late /\ phase[j] = "ended"
  /\ phase' \in {phase, [phase EXCEPT ![j] = "live"]}
  /\ late' = late \ {j}

\* Rows are removed: by a delete one, by a clear several, by a refusal a job
\* that never had one.
Remove(J) ==
  /\ J # {}
  /\ phase' = [j \in Jobs |-> IF j \in J THEN "gone" ELSE phase[j]]
  /\ late' = late \ J

\* A restart loses every open transaction and the uploads under way.
Restart ==
  /\ late' = {}
  /\ \E lost \in SUBSET {j \in Jobs : phase[j] = "unborn"} :
       phase' = [j \in Jobs |-> IF j \in lost THEN "gone" ELSE phase[j]]

\* The boot pass ends jobs that nobody can be working on.
FailOut(J) ==
  /\ \A j \in J : phase[j] = "live"
  /\ phase' = [j \in Jobs |-> IF j \in J THEN "ended" ELSE phase[j]]
  /\ UNCHANGED late

PromiseNext ==
  \/ \E j \in Jobs : Begin(j) \/ End(j) \/ Reopen(j)
  \/ \E J \in SUBSET Jobs : Remove(J) \/ FailOut(J)
  \/ Restart

PromiseSpec == PromiseInit /\ [][PromiseNext]_promise
=============================================================================
