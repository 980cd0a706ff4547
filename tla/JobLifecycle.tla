---------------------------- MODULE JobLifecycle ----------------------------
(***************************************************************************)
(* The life of a karaoke job in one coordinator process: the HTTP handlers *)
(* that create, cancel, delete and clear jobs, the worker coroutine that   *)
(* runs the pipeline, the progress hub's replay cache and heartbeats, a    *)
(* restart of the process and the boot reconcile that follows it.          *)
(*                                                                         *)
(* Everything runs on one event loop, so a step here is the code between   *)
(* two awaits.  A database transaction is therefore two steps: the SELECT  *)
(* that loads the row and the COMMIT that writes the columns the handler   *)
(* assigned.  The ORM writes a column only when the assigned value differs *)
(* from the loaded one, and matches the row by primary key alone.          *)
(***************************************************************************)
EXTENDS Naturals, FiniteSets

CONSTANTS
  Jobs,             \* job ids the database may ever hand out
  UploadJobs,       \* those submitted through POST /jobs/upload
  CapacityRetries,  \* settings.runpod_capacity_retries
  Calls,            \* which of "cancel", "delete", "clear" clients issue
  MaxCrashes,       \* bound: restarts of the coordinator
  MaxDbFaults       \* bound: database round trips that raise

ASSUME JobsAssumption == UploadJobs \subseteq Jobs
ASSUME BoundsAssumption ==
  /\ CapacityRetries \in Nat
  /\ MaxCrashes \in Nat
  /\ MaxDbFaults \in Nat
ASSUME CallsAssumption == Calls \subseteq {"cancel", "delete", "clear"}

VARIABLES
  status,      \* jobs.status, "absent" when there is no row
  artifacts,   \* jobs that have Artifact rows
  files,       \* subdirectories that exist under <artifact_root>/<job_token>
  birth,       \* how far the request that creates the job has got
  cookie,      \* the job's cookie blob: in the registry, in the worker's frame
  pc, tx,      \* the worker coroutine: where it is, and in which transaction
  seen,        \* the status its open transaction loaded
  tries,       \* capacity retries used in the current GPU window
  pass,        \* 1: separation and transcription; 2: post-ASR realignment
  cancelCall,  \* the cancel request in flight for the job
  deleteCall,  \* the delete request in flight for the job
  clearCall, clearing,  \* the clear-failed request, and the rows it loaded
  hubStage,    \* ProgressHub._latest_stage
  beating,     \* jobs with a heartbeat task
  up,          \* "boot", "dispatch" (reconcile committed), "up" (serving)
  crashes, faults

db      == <<status, artifacts>>
worker  == <<pc, tx, seen, tries, pass>>
calls   == <<cancelCall, deleteCall, clearCall, clearing>>
hub     == <<hubStage, beating>>
process == <<up, crashes>>
vars    == <<status, artifacts, files, birth, cookie, pc, tx, seen, tries,
             pass, cancelCall, deleteCall, clearCall, clearing, hubStage,
             beating, up, crashes, faults>>

-----------------------------------------------------------------------------
(* Vocabulary *)

InProgress == {"downloading", "separating", "transcribing"}
Ended      == {"completed", "failed", "cancelled"}
Status     == {"queued"} \cup InProgress \cup Ended
HubStages  == Status \cup {"finalizing"}

\* The transactions a worker opens, named for the call that opens them.
Txs == {"downloading", "metadata", "separating", "transcribing", "attempt",
        "warming", "backoff", "completed", "failed", "unreadable"}

\* The transactions the coroutine returns after: the last one, the _mark_failed
\* of an unreadable upload, and the _mark_failed of the except clause.
LastTxs == {"completed", "failed", "unreadable"}

\* What the worker does outside transactions.
Work == {"probe", "fetch", "gpu", "export", "resolve"}

\* The status a transaction assigns.
Writes(t) ==
  IF t = "metadata" THEN "downloading"
  ELSE IF t \in {"attempt", "warming", "backoff"} THEN "transcribing"
  ELSE IF t = "unreadable" THEN "failed" ELSE t

\* Transactions that announce no stage, and those that may have no changed
\* column (the ORM then issues no UPDATE and cannot notice a missing row).
Silent  == {"attempt", "backoff"}
MayNoop == {"attempt", "backoff", "warming"}

TypeOK ==
  /\ status \in [Jobs -> Status \cup {"absent"}]
  /\ artifacts \subseteq Jobs
  /\ files \in [Jobs -> SUBSET {"work", "exports"}]
  /\ birth \in [Jobs -> {"unborn", "staged", "inserted", "done"}]
  /\ cookie \in [Jobs -> {"none", "stashed", "held"}]
  /\ pc \in [Jobs -> {"none", "start", "load", "commit", "publish"} \cup Work]
  /\ tx \in [Jobs -> Txs \cup {"none"}]
  /\ seen \in [Jobs -> Status \cup {"none"}]
  /\ tries \in [Jobs -> 0..CapacityRetries]
  /\ pass \in [Jobs -> {1, 2}]
  /\ cancelCall \in [Jobs -> {"idle", "loaded", "committed"}]
  /\ deleteCall \in [Jobs -> {"idle", "loaded", "committed"}]
  /\ clearCall \in {"idle", "loaded", "committed"}
  /\ clearing \subseteq Jobs
  /\ hubStage \in [Jobs -> HubStages \cup {"none"}]
  /\ beating \subseteq Jobs
  /\ up \in {"boot", "dispatch", "up"}
  /\ crashes \in 0..MaxCrashes
  /\ faults \in 0..MaxDbFaults

Init ==
  /\ status = [j \in Jobs |-> "absent"]
  /\ artifacts = {}
  /\ files = [j \in Jobs |-> {}]
  /\ birth = [j \in Jobs |-> "unborn"]
  /\ cookie = [j \in Jobs |-> "none"]
  /\ pc = [j \in Jobs |-> "none"]
  /\ tx = [j \in Jobs |-> "none"]
  /\ seen = [j \in Jobs |-> "none"]
  /\ tries = [j \in Jobs |-> 0]
  /\ pass = [j \in Jobs |-> 1]
  /\ cancelCall = [j \in Jobs |-> "idle"]
  /\ deleteCall = [j \in Jobs |-> "idle"]
  /\ clearCall = "idle"
  /\ clearing = {}
  /\ hubStage = [j \in Jobs |-> "none"]
  /\ beating = {}
  /\ up = "boot"
  /\ crashes = 0
  /\ faults = 0

-----------------------------------------------------------------------------
(* Helpers *)

\* Seeded fault: the guard forgets that a job may have been cancelled.
HaltsUnlessCancelled(j) == status[j] \in {"absent", "failed"}

\* The guard every worker transaction applies: "job is None or job.status in
\* {cancelled, failed}".
Halts(j) == status[j] \in {"absent", "cancelled", "failed"}

\* ProgressHub.publish of a stage_change: cache it, start or stop heartbeats.
Publish(j, stage) ==
  /\ hubStage' = [hubStage EXCEPT ![j] = stage]
  /\ beating' = IF stage \in Ended THEN beating \ {j} ELSE beating \cup {j}

\* ProgressHub.forget of every job in J.
Forget(J) ==
  /\ hubStage' = [j \in Jobs |-> IF j \in J THEN "none" ELSE hubStage[j]]
  /\ beating' = beating \ J

\* The coroutine moves on; a transaction it leaves behind is closed.
Goto(j, at, opening) ==
  /\ pc' = [pc EXCEPT ![j] = at]
  /\ tx' = [tx EXCEPT ![j] = opening]
  /\ seen' = [seen EXCEPT ![j] = "none"]

\* run_real_job returns, or an exception leaves it.
Return(j) ==
  /\ Goto(j, "none", "none")
  /\ tries' = [tries EXCEPT ![j] = 0]
  /\ pass' = [pass EXCEPT ![j] = 1]
  /\ cookie' = [cookie EXCEPT ![j] = "none"]

\* "except Exception": the error becomes _mark_failed, and an error inside that
\* _mark_failed leaves the coroutine.
Raise(j) ==
  IF tx[j] = "failed"
    THEN Return(j)
    ELSE Goto(j, "load", "failed") /\ UNCHANGED <<tries, pass, cookie>>

Fault == faults < MaxDbFaults /\ faults' = faults + 1

-----------------------------------------------------------------------------
(* POST /jobs and POST /jobs/upload *)

\* The streamed body is moved to work/source.audio before there is a row.
StageUpload(j) ==
  /\ up = "up" /\ j \in UploadJobs /\ birth[j] = "unborn"
  /\ birth' = [birth EXCEPT ![j] = "staged"]
  /\ files' = [files EXCEPT ![j] = {"work"}]
  /\ UNCHANGED <<db, cookie, worker, calls, hub, process, faults>>

InsertJob(j) ==
  /\ up = "up"
  /\ birth[j] = IF j \in UploadJobs THEN "staged" ELSE "unborn"
  /\ birth' = [birth EXCEPT ![j] = "inserted"]
  /\ status' = [status EXCEPT ![j] = "queued"]
  /\ UNCHANGED <<artifacts, files, cookie, worker, calls, hub, process, faults>>

\* The insert raises, before or after it became durable.  The upload handler
\* drops the staged tree.
InsertFails(j) ==
  /\ up = "up" /\ Fault
  /\ birth[j] = IF j \in UploadJobs THEN "staged" ELSE "unborn"
  /\ birth' = [birth EXCEPT ![j] = "done"]
  /\ \E s \in {"absent", "queued"} : status' = [status EXCEPT ![j] = s]
  /\ files' = [files EXCEPT ![j] = {}]
  /\ UNCHANGED <<artifacts, cookie, worker, calls, hub, process>>

\* After the refresh: announce, stash the cookies if the request carried any,
\* and start the worker task.  No await separates the three.
DispatchJob(j) ==
  /\ up = "up" /\ birth[j] = "inserted" /\ status[j] # "absent"
  /\ birth' = [birth EXCEPT ![j] = "done"]
  /\ Publish(j, "queued")
  /\ \E blob \in IF j \in UploadJobs THEN {"none"} ELSE {"none", "stashed"} :
       cookie' = [cookie EXCEPT ![j] = blob]
  /\ Goto(j, "start", "none")
  /\ UNCHANGED <<db, files, tries, pass, calls, process, faults>>

\* The refresh raises: the row was deleted meanwhile, or the database failed.
\* The upload handler also drops the staged tree.
RefreshFails(j) ==
  /\ up = "up" /\ birth[j] = "inserted"
  /\ \/ status[j] = "absent" /\ UNCHANGED faults
     \/ status[j] # "absent" /\ Fault
  /\ birth' = [birth EXCEPT ![j] = "done"]
  /\ files' = [files EXCEPT ![j] = IF j \in UploadJobs THEN {} ELSE @]
  /\ UNCHANGED <<db, cookie, worker, calls, hub, process>>

-----------------------------------------------------------------------------
(* The worker coroutine, run_real_job *)

\* Seeded fault: the early return comes before the cookies are popped.
ClaimAfterGuard(j) ==
  /\ pc[j] = "start"
  /\ IF Halts(j)
       THEN Goto(j, "none", "none") /\ UNCHANGED cookie
       ELSE /\ Goto(j, "load", "downloading")
            /\ cookie' = [cookie EXCEPT ![j] = IF @ = "stashed" THEN "held" ELSE @]
  /\ UNCHANGED <<db, files, birth, tries, pass, calls, hub, process, faults>>

\* Claim the cookies, then read the row for the first time.
Claim(j) ==
  /\ pc[j] = "start"
  /\ IF Halts(j)
       THEN Return(j)
       ELSE /\ Goto(j, "load", "downloading")
            /\ cookie' = [cookie EXCEPT ![j] = IF @ = "stashed" THEN "held" ELSE @]
            /\ UNCHANGED <<tries, pass>>
  /\ UNCHANGED <<db, files, birth, calls, hub, process, faults>>

\* A transaction loads a row that may advance.
LoadLive(j) ==
  /\ pc[j] = "load" /\ ~Halts(j)
  /\ pc' = [pc EXCEPT ![j] = "commit"]
  /\ seen' = [seen EXCEPT ![j] = status[j]]
  /\ UNCHANGED <<db, files, birth, cookie, tx, tries, pass, calls, hub, process, faults>>

\* A transaction finds the job gone, cancelled or failed: the metadata update
\* is skipped, the GPU retry loop raises, every other caller returns.
LoadHalted(j) ==
  /\ pc[j] = "load" /\ Halts(j)
  /\ \/ /\ tx[j] = "metadata"
        /\ Goto(j, "fetch", "none") /\ UNCHANGED <<tries, pass, cookie>>
     \/ tx[j] \in {"attempt", "warming", "backoff"} /\ Raise(j)
     \/ /\ tx[j] \notin {"metadata", "attempt", "warming", "backoff"}
        /\ Return(j)
  /\ UNCHANGED <<db, files, birth, calls, hub, process, faults>>

\* The columns a commit writes: status only if the assigned value differs from
\* the loaded one, and the Artifact rows with the final status.
Apply(j) ==
  /\ status' = [status EXCEPT ![j] =
                  IF Writes(tx[j]) # seen[j] THEN Writes(tx[j]) ELSE @]
  /\ artifacts' = IF tx[j] = "completed" THEN artifacts \cup {j} ELSE artifacts

\* Where the coroutine goes after a transaction: the work it starts, or the
\* transaction it opens next.
Proceed(j) ==
  \/ tx[j] = "downloading" /\ Goto(j, "probe", "none")
  \/ tx[j] = "metadata" /\ Goto(j, "fetch", "none")
  \/ tx[j] = "separating" /\ Goto(j, "load", "transcribing")
  \/ tx[j] \in {"transcribing", "warming", "backoff"} /\ Goto(j, "load", "attempt")
  \/ tx[j] = "attempt" /\ Goto(j, "gpu", "none")

CommitStage(j) ==
  /\ pc[j] = "commit" /\ status[j] # "absent"
  /\ Apply(j)
  /\ IF tx[j] \in Silent
       THEN Proceed(j)
       ELSE /\ pc' = [pc EXCEPT ![j] = "publish"]
            /\ seen' = [seen EXCEPT ![j] = "none"]
            /\ UNCHANGED tx
  /\ UNCHANGED <<files, birth, cookie, tries, pass, calls, hub, process, faults>>

\* The row was deleted since the load: an UPDATE that matches no row raises
\* StaleDataError; a transaction with nothing to write does not notice.
CommitStale(j) ==
  /\ pc[j] = "commit" /\ status[j] = "absent"
  /\ \/ tx[j] # "attempt" /\ Raise(j)
     \/ tx[j] \in MayNoop /\ Proceed(j) /\ UNCHANGED <<tries, pass, cookie>>
  /\ UNCHANGED <<db, files, birth, calls, hub, process, faults>>

\* Seeded fault: a failure sends its error event but no terminal stage.
PublishNoFailure(j) ==
  /\ pc[j] = "publish"
  /\ IF tx[j] = "failed" THEN UNCHANGED hub ELSE Publish(j, Writes(tx[j]))
  /\ IF tx[j] \in LastTxs
       THEN Return(j)
       ELSE Proceed(j) /\ UNCHANGED <<tries, pass, cookie>>
  /\ UNCHANGED <<db, files, birth, calls, process, faults>>

\* The stage goes to the progress hub once the session is closed.
PublishStage(j) ==
  /\ pc[j] = "publish"
  /\ Publish(j, Writes(tx[j]))
  /\ IF tx[j] \in LastTxs
       THEN Return(j)
       ELSE Proceed(j) /\ UNCHANGED <<tries, pass, cookie>>
  /\ UNCHANGED <<db, files, birth, calls, process, faults>>

\* Metadata: ffprobe of an upload, or yt-dlp.  The row is updated only if there
\* is something to record.
Probe(j) ==
  /\ pc[j] = "probe"
  /\ j \in UploadJobs => "work" \in files[j]
  /\ \/ Goto(j, "load", "metadata")
     \/ Goto(j, "fetch", "none")
  /\ UNCHANGED <<db, files, birth, cookie, tries, pass, calls, hub, process, faults>>

\* An upload that is not on disk or that ffprobe rejects is failed on the spot.
ProbeRejects(j) ==
  /\ pc[j] = "probe" /\ j \in UploadJobs
  /\ Goto(j, "load", "unreadable")
  /\ UNCHANGED <<db, files, birth, cookie, tries, pass, calls, hub, process, faults>>

\* Download (for a URL), conversion to wav, and the reference look-ups; the
\* cookies are dropped once the wav exists.
Fetch(j) ==
  /\ pc[j] = "fetch"
  /\ j \in UploadJobs => "work" \in files[j]
  /\ files' = [files EXCEPT ![j] = @ \cup {"work"}]
  /\ cookie' = [cookie EXCEPT ![j] = "none"]
  /\ Goto(j, "load", "separating")
  /\ UNCHANGED <<db, birth, tries, pass, calls, hub, process, faults>>

\* The GPU window closes with results.  After the first one the worker
\* announces "finalizing" without looking at the row again.
GpuDone(j) ==
  /\ pc[j] = "gpu"
  /\ tries' = [tries EXCEPT ![j] = 0]
  /\ IF pass[j] = 1
       THEN /\ Publish(j, "finalizing")
            /\ files' = [files EXCEPT ![j] = {"work", "exports"}]
            /\ Goto(j, "export", "none")
       ELSE /\ files' = [files EXCEPT ![j] = @ \cup {"work"}]
            /\ Goto(j, "resolve", "none")
            /\ UNCHANGED hub
  /\ UNCHANGED <<db, birth, cookie, pass, calls, process, faults>>

\* RunpodColdStartError: wait for the worker to warm up, on no budget.
GpuCold(j) ==
  /\ pc[j] = "gpu"
  /\ Goto(j, "load", "warming")
  /\ UNCHANGED <<db, files, birth, cookie, tries, pass, calls, hub, process, faults>>

\* Seeded faults: the budget test is off by one, or nothing is counted.
GpuBusyOnceMore(j) ==
  /\ pc[j] = "gpu"
  /\ IF tries[j] > CapacityRetries
       THEN Raise(j)
       ELSE /\ Goto(j, "load", "backoff")
            /\ tries' = [tries EXCEPT ![j] = @ + 1]
            /\ UNCHANGED <<pass, cookie>>
  /\ UNCHANGED <<db, files, birth, calls, hub, process, faults>>

GpuBusyForever(j) ==
  /\ pc[j] = "gpu"
  /\ Goto(j, "load", "backoff")
  /\ UNCHANGED <<db, files, birth, cookie, tries, pass, calls, hub, process, faults>>

\* RunpodCapacityError: back off and try again while the budget lasts.
GpuBusy(j) ==
  /\ pc[j] = "gpu"
  /\ IF tries[j] >= CapacityRetries
       THEN Raise(j)
       ELSE /\ Goto(j, "load", "backoff")
            /\ tries' = [tries EXCEPT ![j] = @ + 1]
            /\ UNCHANGED <<pass, cookie>>
  /\ UNCHANGED <<db, files, birth, calls, hub, process, faults>>

\* Both stems are encoded (each encode makes the directory if need be); a
\* post-ASR hit then opens a second GPU window.
Export(j) ==
  /\ pc[j] = "export"
  /\ files' = [files EXCEPT ![j] = @ \cup {"exports"}]
  /\ \/ Goto(j, "resolve", "none") /\ UNCHANGED pass
     \/ Goto(j, "load", "attempt") /\ pass' = [pass EXCEPT ![j] = 2]
  /\ UNCHANGED <<db, birth, cookie, tries, calls, hub, process, faults>>

\* Lyrics and metadata.json are written into the export directory.
Resolve(j) ==
  /\ pc[j] = "resolve" /\ "exports" \in files[j]
  /\ Goto(j, "load", "completed")
  /\ UNCHANGED <<db, files, birth, cookie, tries, pass, calls, hub, process, faults>>

\* Any other piece of work may raise; the directories it made stay behind.
WorkFails(j) ==
  /\ pc[j] \in Work
  /\ pc[j] = "probe" => j \notin UploadJobs
  /\ Raise(j)
  /\ files' = [files EXCEPT ![j] =
                 @ \cup IF pc[j] = "fetch" THEN {"work"}
                        ELSE IF pc[j] = "export" THEN {"exports"} ELSE {}]
  /\ UNCHANGED <<db, birth, calls, hub, process, faults>>

\* A round trip to the database raises.  The first read is outside the try
\* statement, so nothing catches it there.
DbFault(j) ==
  /\ pc[j] \in {"start", "load", "commit"} /\ Fault
  /\ IF pc[j] = "start" THEN Return(j) ELSE Raise(j)
  /\ UNCHANGED <<db, files, birth, calls, hub, process>>

\* The commit is durable but its acknowledgement is lost.
CommitAckLost(j) ==
  /\ pc[j] = "commit" /\ status[j] # "absent" /\ Fault
  /\ Apply(j)
  /\ Raise(j)
  /\ UNCHANGED <<files, birth, calls, hub, process>>

-----------------------------------------------------------------------------
(* POST /jobs/{id}/cancel *)

CancelLoad(j) ==
  /\ up = "up" /\ "cancel" \in Calls /\ cancelCall[j] = "idle"
  /\ status[j] \notin Ended \cup {"absent"}
  /\ cancelCall' = [cancelCall EXCEPT ![j] = "loaded"]
  /\ UNCHANGED <<db, files, birth, cookie, worker, deleteCall, clearCall,
                 clearing, hub, process, faults>>

\* A row deleted since the load makes the commit raise.
CancelCommit(j) ==
  /\ cancelCall[j] = "loaded"
  /\ IF status[j] = "absent"
       THEN /\ cancelCall' = [cancelCall EXCEPT ![j] = "idle"]
            /\ UNCHANGED status
       ELSE /\ cancelCall' = [cancelCall EXCEPT ![j] = "committed"]
            /\ status' = [status EXCEPT ![j] = "cancelled"]
  /\ UNCHANGED <<artifacts, files, birth, cookie, worker, deleteCall,
                 clearCall, clearing, hub, process, faults>>

\* After the refresh the terminal stage is announced and cookies not yet
\* claimed are dropped.
CancelAnswer(j) ==
  /\ cancelCall[j] = "committed" /\ status[j] # "absent"
  /\ cancelCall' = [cancelCall EXCEPT ![j] = "idle"]
  /\ Publish(j, "cancelled")
  /\ cookie' = [cookie EXCEPT ![j] = IF @ = "stashed" THEN "none" ELSE @]
  /\ UNCHANGED <<db, files, birth, worker, deleteCall, clearCall, clearing,
                 process, faults>>

\* The refresh raises: the row is gone, or the database failed.
CancelUnanswered(j) ==
  /\ cancelCall[j] = "committed"
  /\ \/ status[j] = "absent" /\ UNCHANGED faults
     \/ status[j] # "absent" /\ Fault
  /\ cancelCall' = [cancelCall EXCEPT ![j] = "idle"]
  /\ UNCHANGED <<db, files, birth, cookie, worker, deleteCall, clearCall,
                 clearing, hub, process>>

-----------------------------------------------------------------------------
(* DELETE /jobs/{id} *)

\* Seeded fault: the tree is removed before the row.
DeleteFilesFirst(j) ==
  /\ up = "up" /\ "delete" \in Calls /\ deleteCall[j] = "idle"
  /\ status[j] # "absent"
  /\ deleteCall' = [deleteCall EXCEPT ![j] = "loaded"]
  /\ files' = [files EXCEPT ![j] = {}]
  /\ UNCHANGED <<db, birth, cookie, worker, cancelCall, clearCall, clearing,
                 hub, process, faults>>

DeleteLoad(j) ==
  /\ up = "up" /\ "delete" \in Calls /\ deleteCall[j] = "idle"
  /\ status[j] # "absent"
  /\ deleteCall' = [deleteCall EXCEPT ![j] = "loaded"]
  /\ UNCHANGED <<db, files, birth, cookie, worker, cancelCall, clearCall,
                 clearing, hub, process, faults>>

DeleteCommit(j) ==
  /\ deleteCall[j] = "loaded"
  /\ deleteCall' = [deleteCall EXCEPT ![j] = "committed"]
  /\ status' = [status EXCEPT ![j] = "absent"]
  /\ artifacts' = artifacts \ {j}
  /\ UNCHANGED <<files, birth, cookie, worker, cancelCall, clearCall,
                 clearing, hub, process, faults>>

\* The deletion is durable but its acknowledgement is lost: no cleanup.
DeleteAckLost(j) ==
  /\ deleteCall[j] = "loaded" /\ Fault
  /\ deleteCall' = [deleteCall EXCEPT ![j] = "idle"]
  /\ status' = [status EXCEPT ![j] = "absent"]
  /\ artifacts' = artifacts \ {j}
  /\ UNCHANGED <<files, birth, cookie, worker, cancelCall, clearCall,
                 clearing, hub, process>>

\* Remove the tree, make the hub forget the job, drop unclaimed cookies.
DeleteCleanup(j) ==
  /\ deleteCall[j] = "committed"
  /\ deleteCall' = [deleteCall EXCEPT ![j] = "idle"]
  /\ files' = [files EXCEPT ![j] = {}]
  /\ Forget({j})
  /\ cookie' = [cookie EXCEPT ![j] = IF @ = "stashed" THEN "none" ELSE @]
  /\ UNCHANGED <<db, birth, worker, cancelCall, clearCall, clearing, process, faults>>

-----------------------------------------------------------------------------
(* POST /jobs/clear-failed, as the LAN or machine caller who sees every job *)

ClearLoad ==
  /\ up = "up" /\ "clear" \in Calls /\ clearCall = "idle"
  /\ clearing' = {j \in Jobs : status[j] = "failed"}
  /\ clearing' # {}
  /\ clearCall' = "loaded"
  /\ UNCHANGED <<db, files, birth, cookie, worker, cancelCall, deleteCall,
                 hub, process, faults>>

ClearCommit ==
  /\ clearCall = "loaded"
  /\ clearCall' = "committed"
  /\ status' = [j \in Jobs |-> IF j \in clearing THEN "absent" ELSE status[j]]
  /\ artifacts' = artifacts \ clearing
  /\ UNCHANGED <<files, birth, cookie, worker, cancelCall, deleteCall,
                 clearing, hub, process, faults>>

\* As with a delete, a lost acknowledgement skips the cleanup.
ClearAckLost ==
  /\ clearCall = "loaded" /\ Fault
  /\ clearCall' = "idle"
  /\ clearing' = {}
  /\ status' = [j \in Jobs |-> IF j \in clearing THEN "absent" ELSE status[j]]
  /\ artifacts' = artifacts \ clearing
  /\ UNCHANGED <<files, birth, cookie, worker, cancelCall, deleteCall, hub, process>>

ClearCleanup ==
  /\ clearCall = "committed"
  /\ clearCall' = "idle"
  /\ clearing' = {}
  /\ files' = [j \in Jobs |-> IF j \in clearing THEN {} ELSE files[j]]
  /\ Forget(clearing)
  /\ UNCHANGED <<db, birth, cookie, worker, cancelCall, deleteCall, process, faults>>

-----------------------------------------------------------------------------
(* Restart and boot reconcile *)

\* The process dies: tasks, requests, cookies and the hub go; the database and
\* the artifact store stay.
Crash ==
  /\ crashes < MaxCrashes
  /\ crashes' = crashes + 1
  /\ up' = "boot"
  /\ birth' = [j \in Jobs |-> IF birth[j] = "unborn" THEN "unborn" ELSE "done"]
  /\ cookie' = [j \in Jobs |-> "none"]
  /\ pc' = [j \in Jobs |-> "none"]
  /\ tx' = [j \in Jobs |-> "none"]
  /\ seen' = [j \in Jobs |-> "none"]
  /\ tries' = [j \in Jobs |-> 0]
  /\ pass' = [j \in Jobs |-> 1]
  /\ cancelCall' = [j \in Jobs |-> "idle"]
  /\ deleteCall' = [j \in Jobs |-> "idle"]
  /\ clearCall' = "idle"
  /\ clearing' = {}
  /\ hubStage' = [j \in Jobs |-> "none"]
  /\ beating' = {}
  /\ UNCHANGED <<db, files, faults>>

\* Seeded faults: the list of interrupted states is incomplete; the pass fails
\* out cancelled rows too.
ReconcileSomeRows ==
  /\ up = "boot"
  /\ up' = "dispatch"
  /\ status' = [j \in Jobs |-> IF status[j] \in {"downloading", "transcribing"}
                               THEN "failed" ELSE status[j]]
  /\ UNCHANGED <<artifacts, files, birth, cookie, worker, calls, hub, crashes, faults>>

ReconcileAllRows ==
  /\ up = "boot"
  /\ up' = "dispatch"
  /\ status' = [j \in Jobs |-> IF status[j] \in InProgress \cup {"cancelled"}
                               THEN "failed" ELSE status[j]]
  /\ UNCHANGED <<artifacts, files, birth, cookie, worker, calls, hub, crashes, faults>>

\* Interrupted rows are failed out, in one transaction.
ReconcileRows ==
  /\ up = "boot"
  /\ up' = "dispatch"
  /\ status' = [j \in Jobs |-> IF status[j] \in InProgress THEN "failed" ELSE status[j]]
  /\ UNCHANGED <<artifacts, files, birth, cookie, worker, calls, hub, crashes, faults>>

\* Queued rows get a task again; then the application starts to serve.
ReconcileDispatch ==
  /\ up = "dispatch"
  /\ up' = "up"
  /\ pc' = [j \in Jobs |-> IF status[j] = "queued" THEN "start" ELSE pc[j]]
  /\ UNCHANGED <<db, files, birth, cookie, tx, seen, tries, pass, calls, hub,
                 crashes, faults>>

-----------------------------------------------------------------------------
Create(j) == StageUpload(j) \/ InsertJob(j) \/ InsertFails(j)
               \/ DispatchJob(j) \/ RefreshFails(j)

Transact(j) == LoadLive(j) \/ LoadHalted(j) \/ CommitStage(j)
                 \/ CommitStale(j) \/ PublishStage(j)

Compute(j) == Probe(j) \/ ProbeRejects(j) \/ Fetch(j) \/ Export(j)
                \/ Resolve(j) \/ WorkFails(j)

GpuWindow(j) == GpuDone(j) \/ GpuCold(j) \/ GpuBusy(j)

Worker(j) == Claim(j) \/ Transact(j) \/ Compute(j) \/ GpuWindow(j)

Cancel(j) == CancelLoad(j) \/ CancelCommit(j) \/ CancelAnswer(j)
               \/ CancelUnanswered(j)
Delete(j) == DeleteLoad(j) \/ DeleteCommit(j) \/ DeleteAckLost(j)
               \/ DeleteCleanup(j)
ClearFailed == ClearLoad \/ ClearCommit \/ ClearAckLost \/ ClearCleanup
Reconcile == ReconcileRows \/ ReconcileDispatch

Next ==
  \/ \E j \in Jobs : \/ Create(j) \/ Worker(j) \/ DbFault(j)
                     \/ CommitAckLost(j) \/ Cancel(j) \/ Delete(j)
  \/ ClearFailed \/ Crash \/ Reconcile

Spec == Init /\ [][Next]_vars

\* The event loop runs every ready coroutine: a worker, and a request that has
\* started, keep moving, and a boot finishes.
SchedulerFairness ==
  /\ WF_vars(Reconcile)
  /\ WF_vars(ClearCommit \/ ClearCleanup)
  /\ \A j \in Jobs :
       /\ WF_vars(Worker(j))
       /\ WF_vars(DispatchJob(j) \/ RefreshFails(j))
       /\ WF_vars(CancelCommit(j) \/ CancelAnswer(j) \/ CancelUnanswered(j))
       /\ WF_vars(DeleteCommit(j) \/ DeleteCleanup(j))

FairSpec == Spec /\ SchedulerFairness

\* What the GPU pool owes the coordinator: it does not stay cold for ever.
PoolWarmsUp == \A j \in Jobs : SF_vars(GpuDone(j) \/ GpuBusy(j))

WarmSpec == FairSpec /\ PoolWarmsUp
-----------------------------------------------------------------------------
(* Properties *)

\* Once the process serves, somebody is responsible for every row that has not
\* ended: a worker coroutine, or the request that will start one.  A restart
\* and the races of cancel, delete and the worker leave no row stranded.
LiveRowHasOwner ==
  up = "up" =>
    \A j \in Jobs : status[j] \in {"queued"} \cup InProgress =>
                      pc[j] # "none" \/ birth[j] = "inserted"

\* A job's cookies sit in the registry only while a task that will claim them
\* first thing is waiting to run, and in that task only until the download is
\* over or has failed.
CookieOwned ==
  \A j \in Jobs :
    /\ cookie[j] = "stashed" => pc[j] = "start"
    /\ cookie[j] = "held" => \/ tx[j] \in {"downloading", "metadata", "failed", "unreadable"}
                             \/ pc[j] \in {"probe", "fetch"}

\* A row that says "completed" has its artifact rows and its export directory,
\* however deletes, clears and crashes are interleaved with the worker.
CompletedServable ==
  \A j \in Jobs : status[j] = "completed" =>
                    j \in artifacts /\ "exports" \in files[j]

\* When a job's row says completed or failed and its worker is gone, the hub
\* sends no heartbeat for it.
SettledJobIsQuiet ==
  \A j \in Jobs :
    /\ status[j] \in {"completed", "failed"}
    /\ pc[j] = "none" /\ birth[j] = "done"
    => j \notin beating

\* A row that has ended keeps its status until it is removed, with two
\* exceptions, both transactions opened before the end: a worker may commit
\* its stage over a cancellation, a cancel request over any end.
EndKept ==
  \A j \in Jobs :
    status[j] \in Ended /\ status'[j] \notin {status[j], "absent"} =>
      \/ /\ status[j] = "cancelled"
         /\ pc[j] = "commit" /\ seen[j] \notin Ended
      \/ cancelCall[j] = "loaded" /\ status'[j] = "cancelled"

\* See EndKept: in every step, an ended row is kept but by the two late writers.
EndedJobStays == [][EndKept]_vars

\* Every job whose row exists ends or is removed.
EveryJobSettles ==
  \A j \in Jobs : status[j] # "absent" ~> status[j] \in Ended \cup {"absent"}

\* A cancellation that finds no open transaction is honoured: the worker stops
\* and the row stays cancelled, or goes.
CancelUnwinds ==
  \A j \in Jobs :
    (status[j] = "cancelled" /\ seen[j] = "none")
      ~> (status[j] \in {"cancelled", "absent"} /\ pc[j] = "none")

\* The promise: an ended job is reopened only by a writer that was already at
\* work when it ended, and a removed job never returns.
Phase == [j \in Jobs |->
            IF status[j] \in Ended THEN "ended"
            ELSE IF status[j] # "absent" THEN "live"
            ELSE IF birth[j] \in {"unborn", "staged"} THEN "unborn" ELSE "gone"]
Late == {j \in Jobs : status[j] \in Ended /\ seen[j] \in {"queued"} \cup InProgress}

Promise == INSTANCE JobPromise WITH phase <- Phase, late <- Late

KeepsPromise == Promise!PromiseSpec

-----------------------------------------------------------------------------
(* What the code's own words claim, beyond what it does *)

\* worker/pipeline.py: "Never resurrect a job the user already cancelled (or
\* one already failed) into a fresh 'failed'".
CancelledNeverFails ==
  [][\A j \in Jobs : status[j] = "cancelled" => status'[j] # "failed"]_vars

\* api/routes.py: the terminal event of a cancel "stops the job's heartbeats".
\* With no request or worker left, no client is told, heartbeat after
\* heartbeat, that a cancelled job is being finalized.
CancelledJobIsQuiet ==
  \A j \in Jobs :
    /\ status[j] = "cancelled" /\ pc[j] = "none"
    /\ birth[j] = "done" /\ cancelCall[j] = "idle"
    => ~(j \in beating /\ hubStage[j] = "finalizing")

\* api/routes.py: delete removes a job "(any status) plus its artifact rows and
\* NFS files".
DeletedLeavesNoFiles ==
  \A j \in Jobs :
    /\ status[j] = "absent" /\ birth[j] = "done" /\ pc[j] = "none"
    /\ deleteCall[j] = "idle" /\ crashes = 0
    => files[j] = {}

\* api/ws.py: forget drops "a deleted job's cached state so replays can't
\* resurrect it".
DeletedIsForgotten ==
  \A j \in Jobs :
    /\ status[j] = "absent" /\ pc[j] = "none"
    /\ deleteCall[j] = "idle"
    => hubStage[j] = "none" /\ j \notin beating

=============================================================================
