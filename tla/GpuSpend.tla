------------------------------ MODULE GpuSpend ------------------------------
(***************************************************************************)
(* GPU windows on RunPod and the rolling 24-hour budget they share.  A     *)
(* song here is one run of the job pipeline or one lyrics rebuild; each    *)
(* drives one RunpodClient in a thread of its own, against the RunPod      *)
(* service, and writes what it cost into the database when it is through.  *)
(*                                                                         *)
(* Time advances in poll cycles, the sleep between two polls.  A status    *)
(* request takes time as well, in which the run goes on: what the answer   *)
(* says is later than the clock the caps were tested with.  Money is       *)
(* counted in cycles too, at the hourly rate the client assumes.           *)
(***************************************************************************)
EXTENDS Integers

CONSTANTS
  Songs,
  Rebuilds,      \* those that are lyrics rebuilds of finished jobs
  Tries,         \* how often each submits while the pool is busy
  QueueCeiling,  \* settings.runpod_queue_ceiling_s
  WallCeiling,   \* settings.runpod_wall_ceiling_s
  JobCap,        \* settings.runpod_max_job_cost, 0 when disabled
  DayCap,        \* settings.runpod_daily_cost_cap, 0 when disabled
  MaxAsk,        \* bound: cycles a status request may take; the code limits
                 \* each socket operation (settings.runpod_request_timeout_s)
  MaxLost        \* bound: messages to or from RunPod that get lost

ASSUME SongsAssumption ==
  /\ Rebuilds \subseteq Songs
  /\ Tries \in [Songs -> Nat \ {0}]
ASSUME LimitsAssumption ==
  /\ QueueCeiling \in Nat /\ WallCeiling \in Nat \ {0}
  /\ JobCap \in Nat /\ DayCap \in Nat /\ MaxAsk \in Nat
  /\ MaxLost \in Nat

VARIABLES
  pc,       \* where the song's client is
  outcome,  \* how its last GPU window closed
  run,      \* RunPod's state of the run it submitted last, until its end is known
  wall,     \* cycles since that client.run started
  asked,    \* that clock as the last turn of the loop read it
  ran,      \* the executionTime RunPod would report
  seen,     \* last_execution_ms: what it reported last
  begun,    \* exec_phase: RunPod was seen to execute the run
  tries,    \* submissions a busy pool has cost so far
  pass,     \* 1: the song's first window; 2: realignment to a post-ASR hit
  prior,    \* prior_24h_cost_micros its client was given
  cost,     \* cost of the windows that brought results
  spent,    \* what the database says was spent in the last 24 hours
  counted,  \* songs whose cost is in that sum
  seenSpent,\* ghost: the sum the song read before its first window
  unheard,  \* ghost: songs RunPod was not told about: a lost message, a kill
  lost

window  == <<wall, asked, ran, seen, begun>>
budget  == <<spent, counted>>
ghosts  == <<unheard, lost>>
vars    == <<pc, outcome, run, wall, asked, ran, seen, begun, tries, pass, prior,
             cost, spent, counted, seenSpent, unheard, lost>>

-----------------------------------------------------------------------------
(* Vocabulary *)

Busy     == {"capacity", "cold"}
Outcomes == {"none", "ok", "error"} \cup Busy  \* error: any that is not retried
RunEnds  == {"completed", "failed"}  \* FAILED, CANCELLED and TIMED_OUT are one
Live     == {"queued", "running"}

Dearer(a, b) == IF a > b THEN a ELSE b

\* The client is between its submit and the end of its finally clause.
Polling == {"poll", "asking", "sleep", "finally"}

TypeOK ==
  /\ pc \in [Songs -> {"out", "run", "submit", "settle", "done"} \cup Polling]
  /\ outcome \in [Songs -> Outcomes]
  /\ run \in [Songs -> {"none"} \cup Live \cup RunEnds]
  /\ ran \in [Songs -> Nat]
  /\ seen \in [Songs -> Nat]
  /\ wall \in [Songs -> Nat]
  /\ asked \in [Songs -> Nat]
  /\ begun \in [Songs -> BOOLEAN]
  /\ tries \in [Songs -> Nat] /\ \A c \in Songs : tries[c] < Tries[c]
  /\ pass \in [Songs -> {1, 2}]
  /\ prior \in [Songs -> Int]
  /\ cost \in [Songs -> Nat]
  /\ spent \in Int /\ counted \subseteq Songs
  /\ seenSpent \in [Songs -> Int]
  /\ unheard \subseteq Songs
  /\ lost \in 0..MaxLost

Init ==
  /\ pc = [c \in Songs |-> "out"]
  /\ outcome = [c \in Songs |-> "none"]
  /\ run = [c \in Songs |-> "none"]
  /\ ran = [c \in Songs |-> 0]
  /\ seen = [c \in Songs |-> 0]
  /\ wall = [c \in Songs |-> 0]
  /\ asked = [c \in Songs |-> 0]
  /\ begun = [c \in Songs |-> FALSE]
  /\ tries = [c \in Songs |-> 0]
  /\ pass = [c \in Songs |-> 1]
  /\ prior = [c \in Songs |-> 0]
  /\ cost = [c \in Songs |-> 0]
  /\ spent = 0 /\ counted = {}
  /\ seenSpent = [c \in Songs |-> 0]
  /\ unheard = {}
  /\ lost = 0

-----------------------------------------------------------------------------
(* The budget *)

\* _prior_24h_cost_micros, then a client that keeps the sum.
ReadPrior(c) ==
  /\ pc[c] = "out"
  /\ pc' = [pc EXCEPT ![c] = "run"]
  /\ prior' = [prior EXCEPT ![c] = spent]
  /\ seenSpent' = [seenSpent EXCEPT ![c] = spent]
  /\ UNCHANGED <<outcome, run, window, tries, pass, cost, budget, ghosts>>

\* _check_daily_cap refuses.
OverDailyCap(p) == DayCap > 0 /\ (p >= DayCap \/ p + JobCap > DayCap)

\* The entry of RunpodClient.run.
Enter(c) ==
  /\ pc[c] = "run"
  /\ IF OverDailyCap(prior[c])
       THEN /\ pc' = [pc EXCEPT ![c] = "settle"]
            /\ outcome' = [outcome EXCEPT ![c] = "error"]
       ELSE /\ pc' = [pc EXCEPT ![c] = "submit"]
            /\ outcome' = [outcome EXCEPT ![c] = "none"]
  /\ UNCHANGED <<run, window, tries, pass, prior, seenSpent, cost, budget,
                 ghosts>>

-----------------------------------------------------------------------------
(* One GPU window: RunpodClient.run *)

Lose(c) ==
  /\ lost < MaxLost
  /\ lost' = lost + 1
  /\ unheard' = unheard \cup {c}

\* RunPod takes the job.
Accept(c) == run' = [run EXCEPT ![c] = "queued"]

\* The loop is left, for the finally clause or, when that has nothing to
\* cancel, for the caller.
Exit(c, how, to) ==
  /\ pc' = [pc EXCEPT ![c] = to]
  /\ outcome' = [outcome EXCEPT ![c] = how]
  /\ wall' = [wall EXCEPT ![c] = 0]
  /\ asked' = [asked EXCEPT ![c] = 0]
  /\ ran' = [ran EXCEPT ![c] = 0]
  /\ seen' = [seen EXCEPT ![c] = 0]
  /\ begun' = [begun EXCEPT ![c] = FALSE]

Submit(c) ==
  /\ pc[c] = "submit"
  /\ Accept(c)
  /\ pc' = [pc EXCEPT ![c] = "poll"]
  /\ UNCHANGED <<outcome, window, tries, pass, prior, seenSpent, cost, budget,
                 unheard, lost>>

\* Refused: HTTP 409 from a paused endpoint counts as a busy pool.
SubmitRefused(c) ==
  /\ pc[c] = "submit"
  /\ \E how \in {"capacity", "error"} : Exit(c, how, "settle")
  /\ UNCHANGED <<run, tries, pass, prior, seenSpent, cost, budget, ghosts>>

\* The reply with the id is lost: no id, nothing to cancel.
SubmitReplyLost(c) ==
  /\ pc[c] = "submit"
  /\ Lose(c) /\ Accept(c)
  /\ Exit(c, "error", "settle")
  /\ UNCHANGED <<tries, pass, prior, seenSpent, cost, budget>>

WallTrips(c)  == wall[c] >= WallCeiling
QueueTrips(c) == ~begun[c] /\ wall[c] >= QueueCeiling

\* _project_cost, from the clock of this turn and the answer of the last one.
CapTrips(c)   == JobCap > 0 /\ Dearer(seen[c], wall[c]) > JobCap

\* Seeded fault: a job given up while queued is left to RunPod.
AbandonUncancelled(c, how) ==
  /\ Exit(c, how, IF how \in Busy THEN "settle" ELSE "finally")
  /\ UNCHANGED <<run, tries, pass, prior, seenSpent, cost, budget, ghosts>>

\* An exception leaves the loop while the run is not known to have ended.
Abandon(c, how) ==
  /\ Exit(c, how, "finally")
  /\ UNCHANGED <<run, tries, pass, prior, seenSpent, cost, budget, ghosts>>

\* The checks at the head of the loop, in their order.
HitCeiling(c) ==
  /\ pc[c] = "poll"
  /\ \/ WallTrips(c) /\ Abandon(c, "error")
     \/ /\ ~WallTrips(c) /\ QueueTrips(c)
        /\ \E how \in Busy \cup {"error"} : Abandon(c, how)
     \/ ~WallTrips(c) /\ ~QueueTrips(c) /\ CapTrips(c) /\ Abandon(c, "error")

\* Seeded fault: the cap is tested one cycle late.
MayAskLate(c) ==
  /\ pc[c] = "poll"
  /\ ~WallTrips(c) /\ ~QueueTrips(c)
  /\ ~(JobCap > 0 /\ Dearer(seen[c], wall[c]) > JobCap + 1)

MayAsk(c) ==
  /\ pc[c] = "poll"
  /\ ~WallTrips(c) /\ ~QueueTrips(c) /\ ~CapTrips(c)

\* The status request is under way.
Ask(c) ==
  /\ MayAsk(c)
  /\ pc' = [pc EXCEPT ![c] = "asking"]
  /\ asked' = [asked EXCEPT ![c] = wall[c]]
  /\ UNCHANGED <<outcome, run, wall, ran, seen, begun, tries, pass, prior, seenSpent,
                 cost, budget, ghosts>>

\* The client sleeps until its next turn, which reads the clock anew.
Answered(c) ==
  /\ pc' = [pc EXCEPT ![c] = "sleep"]
  /\ asked' = [asked EXCEPT ![c] = 0]

\* Seeded fault: every answer counts as a new start.
SeeLiveRestartingClock(c) ==
  /\ pc[c] = "asking" /\ run[c] \in Live
  /\ begun' = [begun EXCEPT ![c] = @ \/ run[c] = "running"]
  /\ seen' = [seen EXCEPT ![c] = 0]
  /\ wall' = [wall EXCEPT ![c] = 0]
  /\ ran' = [ran EXCEPT ![c] = 0]
  /\ Answered(c)
  /\ UNCHANGED <<outcome, run, tries, pass, prior, seenSpent, cost, budget,
                 ghosts>>

\* The run is queued or executing: look again in a cycle.
SeeLive(c) ==
  /\ pc[c] = "asking" /\ run[c] \in Live
  /\ begun' = [begun EXCEPT ![c] = @ \/ run[c] = "running"]
  /\ seen' = [seen EXCEPT ![c] = ran[c]]
  /\ Answered(c)
  /\ UNCHANGED <<outcome, run, wall, ran, tries, pass, prior, seenSpent, cost,
                 budget, ghosts>>

\* An HTTP status other than 200 is waited out; an error below HTTP is not.
AskFails(c) ==
  /\ pc[c] = "asking"
  /\ \/ /\ Answered(c)
        /\ UNCHANGED <<outcome, run, wall, ran, seen, begun, tries, pass, prior,
                       seenSpent, cost, budget, ghosts>>
     \/ Abandon(c, "error")

\* COMPLETED: the results are pulled and priced, by the execution time of the
\* answer and the clock from before the question, or that fails.
SeeCompleted(c) ==
  /\ pc[c] = "asking" /\ run[c] = "completed"
  /\ \/ /\ Exit(c, "ok", "settle")
        /\ cost' = [cost EXCEPT ![c] = @ + Dearer(ran[c], asked[c])]
     \/ Exit(c, "error", "settle") /\ UNCHANGED cost
  /\ run' = [run EXCEPT ![c] = "none"]
  /\ UNCHANGED <<tries, pass, prior, seenSpent, budget, ghosts>>

\* FAILED, TIMED_OUT, or cancelled from outside.
SeeFailed(c) ==
  /\ pc[c] = "asking" /\ run[c] = "failed"
  /\ Exit(c, "error", "settle")
  /\ run' = [run EXCEPT ![c] = "none"]
  /\ UNCHANGED <<tries, pass, prior, seenSpent, cost, budget, ghosts>>

\* finally: cancel the run, once, and ignore how that went.
Cancel(c) ==
  /\ pc[c] = "finally"
  /\ pc' = [pc EXCEPT ![c] = "settle"]
  /\ run' = [run EXCEPT ![c] = "none"]
  /\ UNCHANGED <<outcome, window, tries, pass, prior, seenSpent, cost,
                 budget, ghosts>>

CancelLost(c) ==
  /\ pc[c] = "finally"
  /\ Lose(c)
  /\ pc' = [pc EXCEPT ![c] = "settle"]
  /\ UNCHANGED <<outcome, run, window, tries, pass, prior, seenSpent, cost,
                 budget>>

-----------------------------------------------------------------------------
(* The callers: the capacity ladder, the second window, the bookkeeping *)

\* A cold start cost a pipeline no try; a rebuild counts every one.
Charge(c) ==
  IF outcome[c] = "cold" /\ c \notin Rebuilds THEN tries[c] ELSE tries[c] + 1

\* Seeded fault: one try too many.
MayRetryOnceMore(c) == outcome[c] \in Busy /\ Charge(c) <= Tries[c]

MayRetry(c) == outcome[c] \in Busy /\ Charge(c) < Tries[c]

SubmitAgain(c) ==
  /\ pc[c] = "settle" /\ MayRetry(c)
  /\ tries' = [tries EXCEPT ![c] = Charge(c)]
  /\ pc' = [pc EXCEPT ![c] = "run"]
  /\ UNCHANGED <<outcome, run, window, pass, prior, seenSpent, cost, budget,
                 ghosts>>

\* Seeded fault: the second client of a rebuild gets the sum of the first.
RealignOnStalePrior(c) ==
  /\ pc[c] = "settle" /\ outcome[c] = "ok" /\ pass[c] = 1
  /\ pass' = [pass EXCEPT ![c] = 2]
  /\ tries' = [tries EXCEPT ![c] = 0]
  /\ pc' = [pc EXCEPT ![c] = "run"]
  /\ UNCHANGED <<outcome, run, window, prior, seenSpent, cost, budget, ghosts>>

\* A post-ASR hit: a rebuild makes a new client that knows what the first
\* window cost; the pipeline uses its client again.
Realign(c) ==
  /\ pc[c] = "settle" /\ outcome[c] = "ok" /\ pass[c] = 1
  /\ pass' = [pass EXCEPT ![c] = 2]
  /\ tries' = [tries EXCEPT ![c] = 0]
  /\ prior' = [prior EXCEPT ![c] = IF c \in Rebuilds THEN @ + cost[c] ELSE @]
  /\ pc' = [pc EXCEPT ![c] = "run"]
  /\ UNCHANGED <<outcome, run, window, seenSpent, cost, budget, ghosts>>

\* The song is through; what only its coroutine knew is gone.
Finish(c) ==
  /\ pc' = [pc EXCEPT ![c] = "done"]
  /\ outcome' = [outcome EXCEPT ![c] = "none"]
  /\ tries' = [tries EXCEPT ![c] = 0]
  /\ prior' = [prior EXCEPT ![c] = 0]
  /\ seenSpent' = [seenSpent EXCEPT ![c] = 0]
  /\ UNCHANGED <<run, window, ghosts>>

FinishUnpaid(c) ==
  /\ Finish(c)
  /\ pass' = [pass EXCEPT ![c] = 1]
  /\ cost' = [cost EXCEPT ![c] = 0]
  /\ UNCHANGED budget

\* Out of tries, or any other error.  A pipeline also stops if its job was
\* cancelled while it waited.  Nothing is recorded, nor what a first window cost.
GiveUp(c) ==
  /\ pc[c] = "settle" /\ outcome[c] # "ok"
  /\ MayRetry(c) => c \notin Rebuilds
  /\ FinishUnpaid(c)

\* The job was cancelled or deleted, or the rest of its work fails.
Drop(c) ==
  /\ pc[c] = "settle" /\ outcome[c] = "ok"
  /\ FinishUnpaid(c)

\* The last commit of the pipeline, or the swap of a rebuild.
Record(c) ==
  /\ pc[c] = "settle" /\ outcome[c] = "ok"
  /\ Finish(c)
  /\ spent' = spent + cost[c]
  /\ counted' = counted \cup {c}
  /\ UNCHANGED <<pass, cost>>

\* The row is deleted, or leaves the 24 hours.
Forget(c) ==
  /\ c \in counted
  /\ spent' = spent - cost[c]
  /\ counted' = counted \ {c}
  /\ pass' = [pass EXCEPT ![c] = 1]
  /\ cost' = [cost EXCEPT ![c] = 0]
  /\ UNCHANGED <<pc, outcome, run, window, tries, prior, seenSpent, ghosts>>

\* The coordinator is killed: no finally clause runs.  Reconcile fails out the
\* jobs; rebuilds are not resumed.
Crash ==
  /\ unheard' = unheard \cup {c \in Songs : pc[c] \in Polling}
  /\ pc' = [c \in Songs |-> IF pc[c] = "out" THEN "out" ELSE "done"]
  /\ outcome' = [c \in Songs |-> "none"]
  /\ wall' = [c \in Songs |-> 0]
  /\ asked' = [c \in Songs |-> 0]
  /\ ran' = [c \in Songs |-> 0]
  /\ seen' = [c \in Songs |-> 0]
  /\ begun' = [c \in Songs |-> FALSE]
  /\ tries' = [c \in Songs |-> 0]
  /\ prior' = [c \in Songs |-> 0]
  /\ seenSpent' = [c \in Songs |-> 0]
  /\ pass' = [c \in Songs |-> IF c \in counted THEN pass[c] ELSE 1]
  /\ cost' = [c \in Songs |-> IF c \in counted THEN cost[c] ELSE 0]
  /\ UNCHANGED <<run, budget, lost>>

-----------------------------------------------------------------------------
(* RunPod, and time *)

RunStarts(c) ==
  /\ run[c] = "queued"
  /\ run' = [run EXCEPT ![c] = "running"]
  /\ UNCHANGED <<pc, outcome, window, tries, pass, prior, seenSpent, cost,
                 budget, ghosts>>

RunEndsBy(c) ==
  /\ \/ run[c] = "running" /\ \E s \in RunEnds : run' = [run EXCEPT ![c] = s]
     \/ run[c] = "queued" /\ run' = [run EXCEPT ![c] = "failed"]
  /\ UNCHANGED <<pc, outcome, window, tries, pass, prior, seenSpent, cost,
                 budget, ghosts>>

\* The clients for whom time passes: those that sleep, and those whose status
\* request is under way.
Waiting(c) == pc[c] = "sleep" \/ pc[c] = "asking"

\* A cycle passes; clients with anything else to do finish that first, and
\* a request ends within MaxAsk.  What a run nobody watches costs is not counted.
Tick ==
  /\ \A c \in Songs :
       /\ pc[c] \notin {"submit", "poll", "finally"}
       /\ pc[c] = "asking" => wall[c] < asked[c] + MaxAsk
  /\ \E c \in Songs : Waiting(c)
  /\ pc' = [c \in Songs |-> IF pc[c] = "sleep" THEN "poll" ELSE pc[c]]
  /\ wall' = [c \in Songs |-> IF Waiting(c) THEN wall[c] + 1 ELSE wall[c]]
  /\ ran' = [c \in Songs |-> IF Waiting(c) /\ run[c] = "running"
                             THEN ran[c] + 1 ELSE ran[c]]
  /\ UNCHANGED <<outcome, run, asked, seen, begun, tries, pass, prior, seenSpent, cost,
                 budget, ghosts>>

-----------------------------------------------------------------------------
Submission(c) == Submit(c) \/ SubmitRefused(c) \/ SubmitReplyLost(c)
Poll(c)       == HitCeiling(c) \/ Ask(c) \/ SeeLive(c) \/ AskFails(c)
                   \/ SeeCompleted(c) \/ SeeFailed(c)
Caller(c)     == ReadPrior(c) \/ SubmitAgain(c) \/ GiveUp(c) \/ Realign(c)
                   \/ Record(c) \/ Drop(c)
Client(c)     == Enter(c) \/ Submission(c) \/ Poll(c) \/ Cancel(c) \/ CancelLost(c)
RunPod(c)     == RunStarts(c) \/ RunEndsBy(c)

Next ==
  \/ \E c \in Songs : Caller(c) \/ Client(c) \/ RunPod(c) \/ Forget(c)
  \/ Tick \/ Crash

Spec == Init /\ [][Next]_vars

\* A thread that has started keeps running, its requests end by their time
\* limits, and time passes.  Nothing is asked of RunPod.
FairSpec == Spec /\ WF_vars(Tick) /\ \A c \in Songs : WF_vars(Client(c))

-----------------------------------------------------------------------------
(* Properties *)

\* A run that RunPod holds in its queue or executes has a client that will see
\* its end or cancel it, so that a song, which submits from outside its loop,
\* never has two; unless RunPod was not told: the reply to a submit or a cancel
\* got lost, or the coordinator was killed.
LiveRunIsWatched ==
  \A c \in Songs \ unheard : run[c] \in Live => pc[c] \in Polling

\* The caps are tested before a status request and the price is known after it:
\* what a song is charged for a window can exceed the per-job cap, or the wall
\* ceiling, by what its last request took, and by no more.
CostNearCap ==
  \A c \in Songs :
    /\ cost[c] <= pass[c] * (WallCeiling - 1 + MaxAsk)
    /\ JobCap > 0 => cost[c] <= pass[c] * (JobCap + MaxAsk)

\* A song stays within the day's cap as it read it, but for what one status
\* request takes: a rebuild in both windows together and however often it
\* submits, a pipeline in its first window.
OwnCapKept ==
  DayCap > 0 /\ JobCap > 0 =>
    \A c \in Songs :
      /\ pc[c] # "done" /\ cost[c] > 0
      /\ c \in Rebuilds \/ pass[c] = 1
      => seenSpent[c] + cost[c] <= DayCap + MaxAsk

\* Every GPU window closes, whatever RunPod answers or fails to answer.
WindowCloses ==
  \A c \in Songs :
    pc[c] \in Polling \cup {"submit"} ~> pc[c] \notin Polling \cup {"submit"}

-----------------------------------------------------------------------------
(* What the code's own words claim, beyond what it does *)

\* config.py: "per-job USD ceiling; cancel + raise beyond".
JobCapHolds == JobCap > 0 => \A c \in Songs : cost[c] <= pass[c] * JobCap

\* config.py: the cap is a "Rolling 24-hour hard ceiling" on what is spent.
DailyCapHolds == DayCap > 0 => spent <= DayCap

\* worker/runpod_client.py: the finally clause cancels, "so a coordinator crash
\* mid-poll cannot leak a billable RunPod worker".
CrashLeaksNothing ==
  lost = 0 => \A c \in Songs : run[c] \in Live => pc[c] \in Polling
=============================================================================
