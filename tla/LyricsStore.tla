----------------------------- MODULE LyricsStore -----------------------------
(***************************************************************************)
(* The lyrics of one finished job: the files under exports/, the artifact  *)
(* rows that describe them, the owner's reviews that edit them, the lyrics *)
(* rebuilds that replace them, and the delete that removes them.           *)
(*                                                                         *)
(* Handlers and rebuilds are coroutines on one event loop: what a step     *)
(* does to the files between two awaits is atomic to the others, unless    *)
(* the disk fails or the process is killed amid it.  Steps that write the  *)
(* job's row wait for the row lock of PostgreSQL, which SELECT .. FOR      *)
(* UPDATE keeps until the end of the transaction.                          *)
(*                                                                         *)
(* A file is the name of its writer; so is the size in an artifact row.    *)
(***************************************************************************)
EXTENDS Naturals, FiniteSets, Sequences

CONSTANTS
  Rebuilds, Reviews,  \* requests: each is made once; a review may be tried again
  Job,                \* the job's worker, who wrote the first lyrics
  Missing,            \* no such file, no such row
  Nobody,             \* of the row lock
  MaxFaults,          \* bound: kills of the coordinator, writes to exports/ that
                      \* fail, commits that fail, are cancelled or lose their answer
  MaxOverruns         \* bound: locks that outlive their 45 minutes

Writers == Rebuilds \cup Reviews
ASSUME WritersAssumption ==
  /\ Rebuilds \cap Reviews = {}
  /\ {Job, Missing, Nobody} \cap Writers = {} /\ Job # Missing
ASSUME BoundsAssumption ==
  /\ MaxFaults \in Nat /\ MaxOverruns \in Nat

VARIABLES
  row,       \* the job's row: "leaving" when deleted with its files still there
  note,      \* Job.stage_note
  sizes,     \* the artifact rows of the two lyrics files
  tree,      \* the job's directory: "litter" when made anew after its removal
  files,     \* the four files of a revision
  backups,   \* what work/lyrics-rebuilds/ and work/lyrics-reviews/ hold
  held,      \* who holds the row lock
  lock,      \* the rebuild lock file
  pc,        \* where each rebuild or review is
  seen,      \* the revision the author of a review was shown
  saved,     \* ghost: reviews whose files were in place
  late,      \* ghost: those put in place while a rebuild waited to swap in
  unsettled, \* ghost: a failure the code does not repair in the artifact rows
  faults, overruns,
  troubles   \* ghost: the faults that are kills or failures of the disk

database == <<row, note, sizes>>
disk     == <<tree, files, backups>>
ghosts   == <<saved, late, unsettled>>
bounds   == <<faults, overruns, troubles>>
vars     == <<row, note, sizes, tree, files, backups, held, lock, pc, seen,
              saved, late, unsettled, faults, overruns, troubles>>

-----------------------------------------------------------------------------
(* Vocabulary *)

Names     == {"lrc", "txt", "meta", "quality"}
Revisions == [Names -> Writers \cup {Job, Missing}]
By(w)     == [n \in Names |-> w]
NoFiles   == By(Missing)
RowsOf(f) == [n \in {"lrc", "txt"} |-> f[n]]

\* What a lyrics pass finds.
Shapes == {"synced", "plain", "instrumental"}

\* _swap_in: lrc written or removed, txt and quality written if the pass made
\* them, metadata last.
Swapped(r, shape, old) ==
  [By(r) EXCEPT !.lrc = IF shape = "synced" THEN r ELSE Missing,
                !.txt = IF shape = "instrumental" THEN old.txt ELSE r]

\* The first k files of an order are new, the others as before.
SwapOrder   == <<"lrc", "txt", "quality", "meta">>
ReviewOrder == <<"lrc", "txt", "meta", "quality">>
Partly(order, k, new, old) ==
  [n \in Names |-> IF \E i \in 1..k : order[i] = n THEN new[n] ELSE old[n]]

\* _lock_alive: written by this process within the last 45 minutes.
NoLock    == [by |-> Missing, live |-> FALSE]
Locks     == [by : Rebuilds, live : BOOLEAN] \cup {NoLock}
LockAlive == lock.live
Stale(l)  == [by |-> l.by, live |-> FALSE]

Running == {r \in Rebuilds : pc[r] \in {"note", "compute", "wait", "commit", "fail", "end"}}

Goto(w, to) == pc' = [pc EXCEPT ![w] = to]

Steps == {"idle", "start", "lock", "note", "compute", "wait", "commit", "fail", "end",
          "seen", "write", "reconcile", "done"}

\* The row lock is held by whoever has written and not ended its transaction.
TypeOK ==
  /\ row \in {"there", "leaving", "gone"}
  /\ note \in {"none", "rebuilding", "failed"}
  /\ sizes \in [{"lrc", "txt"} -> Writers \cup {Job, Missing}]
  /\ tree \in {"whole", "gone", "litter"}
  /\ files \in Revisions
  /\ backups \subseteq Revisions
  /\ held \in Writers \cup {Nobody}
  /\ \A w \in Writers : held = w <=> pc[w] \in {"write", "commit"}
  /\ lock \in Locks
  /\ pc \in [Writers -> Steps]
  /\ seen \in [Reviews -> Revisions]
  /\ saved \subseteq Reviews /\ late \subseteq saved
  /\ unsettled \in BOOLEAN
  /\ faults \in 0..MaxFaults /\ troubles \in 0..faults
  /\ overruns \in 0..MaxOverruns

Init ==
  /\ row = "there" /\ note = "none" /\ sizes = RowsOf(By(Job))
  /\ tree = "whole" /\ files = By(Job) /\ backups = {}
  /\ held = Nobody /\ lock = NoLock
  /\ pc = [w \in Writers |-> "idle"]
  /\ seen = [v \in Reviews |-> By(Job)]
  /\ saved = {} /\ late = {} /\ unsettled = FALSE
  /\ faults = 0 /\ overruns = 0 /\ troubles = 0

Fault     == faults < MaxFaults /\ faults' = faults + 1 /\ UNCHANGED overruns
DbFault   == Fault /\ UNCHANGED troubles
DiskFault == Fault /\ troubles' = troubles + 1

-----------------------------------------------------------------------------
(* A rebuild *)

\* POST lyrics-rebuild or lyrics-reference.
Request(r) ==
  /\ pc[r] = "idle" /\ tree = "whole" /\ ~LockAlive
  /\ Goto(r, "start")
  /\ UNCHANGED <<database, disk, held, lock, seen, ghosts, bounds>>

\* The task looks at the row and at the stem again.
Start(r) ==
  /\ pc[r] = "start"
  /\ Goto(r, IF row = "there" /\ tree = "whole" THEN "lock" ELSE "done")
  /\ UNCHANGED <<database, disk, held, lock, seen, ghosts, bounds>>

\* Seeded fault: whatever lock there is, it is taken over.
AcquireOver(r) ==
  /\ pc[r] = "lock"
  /\ Goto(r, "note")
  /\ lock' = [by |-> r, live |-> TRUE]
  /\ UNCHANGED <<database, disk, held, seen, ghosts, bounds>>

\* acquire_lock: a live lock of another rebuild ends this one without a word; a
\* dead one is unlinked; without the directory the task dies.
Acquire(r) ==
  /\ pc[r] = "lock"
  /\ IF LockAlive \/ tree = "gone"
     THEN Goto(r, "done") /\ UNCHANGED lock
     ELSE Goto(r, "note") /\ lock' = [by |-> r, live |-> TRUE]
  /\ UNCHANGED <<database, disk, held, seen, ghosts, bounds>>

\* _set_note, then the metadata is read.  A row deleted between the load and
\* the update of _set_note is an error; one deleted before is none.
SetNote(r) ==
  /\ pc[r] = "note" /\ held = Nobody
  /\ \/ /\ note' = IF row = "there" THEN "rebuilding" ELSE note
        /\ Goto(r, IF files["meta"] = Missing THEN "fail" ELSE "compute")
        /\ UNCHANGED bounds
     \/ /\ IF row = "there" THEN DbFault ELSE UNCHANGED bounds
        /\ Goto(r, "fail")
        /\ UNCHANGED note
  /\ UNCHANGED <<row, sizes, disk, held, lock, seen, ghosts>>

\* Seeded fault: the old files are not copied.
NoBackup(r) ==
  /\ pc[r] = "compute"
  /\ Goto(r, "wait")
  /\ UNCHANGED <<database, disk, held, lock, seen, ghosts, bounds>>

\* The lyrics pass has a result and _swap_in begins: it copies the files of now
\* and then asks for the row.  A directory removed meanwhile is made again.
Backup(r) ==
  /\ pc[r] = "compute"
  /\ Goto(r, "wait")
  /\ tree' = IF tree = "gone" THEN "litter" ELSE tree
  /\ backups' = backups \cup {files}
  /\ UNCHANGED <<database, files, held, lock, seen, ghosts, bounds>>

\* The GPU, a look-up or the disk failed; so does the work in a removed tree.
ComputeFails(r) ==
  /\ pc[r] = "compute"
  /\ Goto(r, "fail")
  /\ UNCHANGED <<database, disk, held, lock, seen, ghosts, bounds>>

\* _swap_in gets the row and replaces the files in one go.
Swap(r) ==
  /\ pc[r] = "wait" /\ held = Nobody /\ row = "there"
  /\ \E shape \in Shapes : files' = Swapped(r, shape, files)
  /\ Goto(r, "commit") /\ held' = r
  /\ UNCHANGED <<database, tree, backups, lock, seen, ghosts, bounds>>

\* "job disappeared during the rebuild", or the database cannot be asked.
SwapRefused(r) ==
  /\ pc[r] = "wait"
  /\ \/ held = Nobody /\ row # "there" /\ UNCHANGED bounds
     \/ DbFault
  /\ Goto(r, "fail")
  /\ UNCHANGED <<database, disk, held, lock, seen, ghosts>>

\* A write fails: the transaction is rolled back, what is written stays.
SwapBreaks(r) ==
  /\ pc[r] = "wait" /\ held = Nobody /\ row = "there" /\ DiskFault
  /\ \E shape \in Shapes, k \in 0..3 :
       files' = Partly(SwapOrder, k, Swapped(r, shape, files), files)
  /\ Goto(r, "fail") /\ unsettled' = TRUE
  /\ UNCHANGED <<database, tree, backups, held, lock, seen, saved, late>>

SwapCommit(r) ==
  /\ pc[r] = "commit"
  /\ sizes' = RowsOf(files) /\ note' = "none"
  /\ held' = Nobody /\ unsettled' = FALSE
  /\ Goto(r, "end")
  /\ UNCHANGED <<row, disk, lock, seen, saved, late, bounds>>

\* Seeded fault: the transaction is not closed.
SwapCommitHolds(r) ==
  /\ pc[r] = "commit" /\ DbFault
  /\ Goto(r, "fail") /\ unsettled' = TRUE
  /\ UNCHANGED <<database, disk, held, lock, seen, saved, late>>

\* The commit raises; it may have been carried out.
SwapCommitFails(r) ==
  /\ pc[r] = "commit" /\ DbFault
  /\ \/ sizes' = RowsOf(files) /\ note' = "none" /\ unsettled' = FALSE
     \/ unsettled' = TRUE /\ UNCHANGED <<sizes, note>>
  /\ held' = Nobody
  /\ Goto(r, "fail")
  /\ UNCHANGED <<row, disk, lock, seen, saved, late>>

\* The except clause; _set_note may fail as well, and the lock goes either way.
Fail(r) ==
  /\ pc[r] = "fail" /\ held = Nobody
  /\ \/ note' = (IF row = "there" THEN "failed" ELSE note) /\ UNCHANGED bounds
     \/ row = "there" /\ DbFault /\ UNCHANGED note
  /\ Goto(r, "end")
  /\ UNCHANGED <<row, sizes, disk, held, lock, seen, ghosts>>

\* The finally clause unlinks the lock file, whoever wrote it.
End(r) ==
  /\ pc[r] = "end"
  /\ lock' = NoLock
  /\ Goto(r, "done")
  /\ UNCHANGED <<database, disk, held, seen, ghosts, bounds>>

\* 45 minutes pass while the rebuild that wrote the lock still runs.
Overrun ==
  /\ LockAlive /\ lock.by \in Running /\ overruns < MaxOverruns
  /\ lock' = Stale(lock)
  /\ overruns' = overruns + 1
  /\ UNCHANGED <<database, disk, held, pc, seen, ghosts, faults, troubles>>

-----------------------------------------------------------------------------
(* A review *)

\* The owner is shown the lyrics and their revision.
See(v) ==
  /\ pc[v] = "idle" /\ row = "there"
  /\ seen' = [seen EXCEPT ![v] = files]
  /\ Goto(v, "seen")
  /\ UNCHANGED <<database, disk, held, lock, ghosts, bounds>>

\* Seeded fault: the revision is not compared.
PutBlindly(v) ==
  /\ pc[v] = "seen" /\ held = Nobody
  /\ IF row = "there"
     THEN /\ Goto(v, "write") /\ held' = v /\ backups' = backups \cup {files}
     ELSE /\ Goto(v, "done") /\ UNCHANGED <<held, backups>>
  /\ UNCHANGED <<database, tree, files, lock, seen, ghosts, bounds>>

\* PUT lyrics-review under the row lock: 404, 409 or the backup.
Put(v) ==
  /\ pc[v] = "seen" /\ held = Nobody
  /\ IF row = "there" /\ files = seen[v]
     THEN /\ Goto(v, "write") /\ held' = v /\ backups' = backups \cup {files}
     ELSE /\ Goto(v, IF row = "there" THEN "idle" ELSE "done")
          /\ UNCHANGED <<held, backups>>
  /\ UNCHANGED <<database, tree, files, lock, seen, ghosts, bounds>>

Write(v) ==
  /\ pc[v] = "write"
  /\ files' = By(v)
  /\ saved' = saved \cup {v}
  /\ late' = IF \E r \in Rebuilds : pc[r] = "wait" THEN late \cup {v} ELSE late
  /\ Goto(v, "commit")
  /\ UNCHANGED <<database, tree, backups, held, lock, seen, unsettled, bounds>>

\* The artifact rows cannot be read, or a write fails: the files written so far
\* are put back, the transaction is rolled back.
WriteFails(v) ==
  /\ pc[v] = "write" /\ (DbFault \/ DiskFault)
  /\ held' = Nobody
  /\ Goto(v, "done")
  /\ UNCHANGED <<database, disk, lock, seen, ghosts>>

ReviewCommit(v) ==
  /\ pc[v] = "commit"
  /\ sizes' = RowsOf(By(v)) /\ note' = "none"
  /\ held' = Nobody /\ unsettled' = FALSE
  /\ Goto(v, "done")
  /\ UNCHANGED <<row, disk, lock, seen, saved, late, bounds>>

\* The commit raises, and it may have been carried out.  An error is followed by
\* one attempt to reconcile, a cancellation is not.
ReviewCommitFails(v) ==
  /\ pc[v] = "commit" /\ DbFault
  /\ held' = Nobody
  /\ \/ sizes' = RowsOf(By(v)) /\ note' = "none" /\ unsettled' = FALSE
        /\ Goto(v, "reconcile")
     \/ Goto(v, "reconcile") /\ UNCHANGED <<sizes, note, unsettled>>
     \/ unsettled' = TRUE /\ Goto(v, "done") /\ UNCHANGED <<sizes, note>>
  /\ UNCHANGED <<row, disk, lock, seen, saved, late>>

\* Seeded fault: the rows are written without a look at the files of now.
ReconcileBlindly(v) ==
  /\ pc[v] = "reconcile" /\ held = Nobody
  /\ IF row = "there"
     THEN sizes' = RowsOf(By(v)) /\ note' = "none" /\ unsettled' = FALSE
     ELSE UNCHANGED <<sizes, note, unsettled>>
  /\ Goto(v, "done")
  /\ UNCHANGED <<row, disk, held, lock, seen, saved, late, bounds>>

\* _reconcile_unconfirmed_commit: only if the files are still the candidate's.
Reconcile(v) ==
  /\ pc[v] = "reconcile" /\ held = Nobody
  /\ IF row = "there" /\ files = By(v)
     THEN sizes' = RowsOf(By(v)) /\ note' = "none" /\ unsettled' = FALSE
     ELSE UNCHANGED <<sizes, note, unsettled>>
  /\ Goto(v, "done")
  /\ UNCHANGED <<row, disk, held, lock, seen, saved, late, bounds>>

\* The fault that made the commit fail may last.
ReconcileFails(v) ==
  /\ pc[v] = "reconcile"
  /\ unsettled' = TRUE /\ Goto(v, "done")
  /\ UNCHANGED <<database, disk, held, lock, seen, saved, late, bounds>>

-----------------------------------------------------------------------------
(* Delete, and kills of the process *)

DeleteRow ==
  /\ row = "there" /\ held = Nobody
  /\ row' = "leaving" /\ sizes' = RowsOf(NoFiles) /\ note' = "none"
  /\ UNCHANGED <<disk, held, lock, pc, seen, ghosts, bounds>>

\* _remove_artifact_files takes the lock file and the backups with it.
RemoveTree ==
  /\ row = "leaving"
  /\ row' = "gone" /\ tree' = "gone" /\ files' = NoFiles /\ backups' = {}
  /\ lock' = NoLock
  /\ UNCHANGED <<note, sizes, held, pc, seen, ghosts, bounds>>

\* A task that was killed is not resumed; a request that waits for its client is
\* no task.
Killed == [w \in Writers |-> IF pc[w] \in {"idle", "seen"} THEN pc[w] ELSE "done"]

\* A kill between two steps, or amid the writes of one.
CrashWith(newFiles) ==
  /\ Fault /\ troubles' = troubles + 1
  /\ files' = newFiles
  /\ pc' = Killed
  /\ held' = Nobody /\ lock' = Stale(lock)
  /\ row' = IF row = "leaving" THEN "gone" ELSE row
  /\ unsettled' = (unsettled \/ files' # files \/ held # Nobody
                   \/ \E v \in Reviews : pc[v] = "reconcile")
  /\ UNCHANGED <<note, sizes, tree, backups, seen, saved, late>>

Crash == CrashWith(files)

CrashInSwap(r) ==
  /\ pc[r] = "wait" /\ held = Nobody /\ row = "there"
  /\ \E shape \in Shapes, k \in 1..3 :
       CrashWith(Partly(SwapOrder, k, Swapped(r, shape, files), files))

CrashInWrite(v) ==
  /\ pc[v] = "write"
  /\ \E k \in 1..3 : CrashWith(Partly(ReviewOrder, k, By(v), files))

RebuildStep(r) ==
  \/ Start(r) \/ Acquire(r) \/ SetNote(r) \/ Backup(r) \/ ComputeFails(r)
  \/ Swap(r) \/ SwapRefused(r) \/ SwapBreaks(r) \/ SwapCommit(r) \/ SwapCommitFails(r)
  \/ Fail(r) \/ End(r)

ReviewStep(v) ==
  \/ Write(v) \/ WriteFails(v) \/ ReviewCommit(v) \/ ReviewCommitFails(v)
  \/ Reconcile(v) \/ ReconcileFails(v)

Next ==
  \/ \E r \in Rebuilds : Request(r) \/ RebuildStep(r) \/ CrashInSwap(r)
  \/ \E v \in Reviews : See(v) \/ Put(v) \/ ReviewStep(v) \/ CrashInWrite(v)
  \/ Overrun \/ DeleteRow \/ RemoveTree \/ Crash

\* Started coroutines run on; a row lock that is free again and again is given
\* to everyone who waits for it.  Nobody has to ask for anything.
Fairness ==
  /\ \A r \in Rebuilds : SF_vars(RebuildStep(r))
  /\ \A v \in Reviews : SF_vars(ReviewStep(v))
  /\ WF_vars(RemoveTree)

Spec == Init /\ [][Next]_vars /\ Fairness

-----------------------------------------------------------------------------
(* Properties *)

\* At most one rebuild works on a job that is there, as long as none takes more
\* than 45 minutes: acquire_lock and the finally clause of rebuild_lyrics, across
\* requests that pass the check of _start_lyrics_rebuild together and restarts.
OneRebuild == overruns = 0 /\ row = "there" => Cardinality(Running) <= 1

Kept(v) == By(v) \in backups \cup {files}

\* A review that was saved is current, or a backup holds it, whatever is rebuilt,
\* reviewed or torn later; the reviews put in place while a rebuild waited with its
\* backup made are the exception (backup before the row lock in _swap_in).
ReviewKept == row = "there" => \A v \in saved \ late : Kept(v)

\* The same without the exception, as the docstring of lyrics_rebuild has it.
NothingLost == row = "there" => \A v \in saved : Kept(v)

\* When nobody is writing, the artifact rows have the sizes of the files there are,
\* one lost acknowledgement of a review's commit and later writers included: the
\* compare in _reconcile_unconfirmed_commit.
RowsDescribeFiles ==
  row = "there" /\ held = Nobody /\ ~unsettled
    /\ (\A v \in Reviews : pc[v] # "reconcile")
  => sizes = RowsOf(files)

\* To their readers the files behave as LyricsPromise says: whole unless the disk
\* fails or the process is killed amid a write, reviews on exactly what was shown,
\* and nothing after the removal.
Promise == INSTANCE LyricsPromise WITH
  lyrics <- files
KeepsPromise == Promise!Spec

\* Every rebuild that was started ends: as swapped in, failed, refused or killed.
RebuildEnds == \A r \in Rebuilds : pc[r] = "start" ~> pc[r] = "done"
=============================================================================
