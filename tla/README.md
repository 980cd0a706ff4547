# A verification project for karaoke

`karaoke` turns a URL or an uploaded song into a karaoke page: a FastAPI
coordinator keeps jobs in a database, one asyncio task per job downloads the
audio, has a remote GPU separate and transcribe it, chooses lyrics, and writes
the exports that a public share page plays. This directory holds TLA+ models of
the coordinator, the TLC runs that check them on small instances and proofs that
TLAPS checks for every instance. Paths below are relative to `src/src/karaoke/`
unless they say otherwise; `PROJECT.json` maps every definition to its lines.

How to run it: `tlc -config Lifecycle.cfg MCJobLifecycle` and likewise for the
other configurations, `tlapm JobLifecycle_proofs.tla` and likewise for the other
modules whose name ends in `_proofs`.

## 1. Inventory: the system's parts

**Job row** (`db/models.py`). State: `jobs.status` (queued, downloading,
separating, transcribing, completed, failed, cancelled), progress, stage note,
error, cost columns, and `artifacts` rows that go with the job. No version
column: an UPDATE matches by primary key, so the last commit wins. Correct if:
an ended job stays ended; a completed row can be served.

**Job requests** (`api/routes.py`, `uploads.py`). Create (URL or upload), cancel,
delete, clear-failed, retry by creating anew. Each is load, commit, then effects
outside the database: remove files, publish, make the hub forget, start a task.
Hard: each await lets the worker and other requests in between; a failure
between the commit and an effect.

**Worker** (`worker/pipeline.py`, `worker/scheduler.py`). One coroutine per job;
`_set_stage` moves the row along and tells the coroutine to stop when the job was
cancelled or is gone; `_mark_failed` ends it; `_run_gpu_with_capacity_retry` waits
for the GPU pool. State: the frame (cookies, counters, results), files under
`<artifact_root>/<job_token>`. Hard: the row may change under every await; a
restart kills it anywhere. Correct if: a live row always has somebody at work on
it, a cancel is noticed, every job ends.

**Cookie registry** (`worker/job_cookies.py`). A dictionary of per-job cookie
blobs between the request and the task. Correct if: no blob outlives the task
that it is for.

**Boot** (`worker/reconcile.py`, `api/app.py`). Fails out interrupted rows,
re-dispatches queued ones, then serves. Correct if: it strands no row and reopens
no ended one.

**Progress hub and feeds** (`api/ws.py`, `src/web/spa/src/ws.ts`). Caches of the
last stage and heartbeat of each job, one heartbeat task per job in progress,
subscriber queues of 256 frames that lose the oldest, `/ws/{id}` with a replay on
connect and `/ws` for everything. Hard: publishes interleave with the replay, slow
sockets, full queues, restarts that empty the caches. Correct if: the end of a job
is shown to whoever follows it; settled jobs are quiet.

**GPU clients** (`worker/runpod_client.py`, `worker/vast_client.py`). RunPod:
submit, poll, two ceilings, a per-job and a daily cap, cancel in a `finally`.
vast.ai: rent an instance, use it, destroy it. Hard: the remote state is only
seen by polling; messages get lost; the process may die. Correct if: nothing
billable is left without a watcher, money is accounted for, a window always closes.

**Lyrics rebuild and review** (`worker/lyrics_rebuild.py`,
`api/lyrics_review.py`). State: four files under `exports/`, the artifact rows with
their sizes, a note on the row, the lock file, backups under `work/`. Replace the
lyrics of a completed job: a rebuild after minutes of GPU work, under a lock file;
a review at once, compare-and-swap on a revision. Hard: the two against each other
and a delete, a lost acknowledgement of a commit after files were swapped, a lock
that goes stale, a failing disk or a kill between two of the four files. Correct if:
files change as a whole, no review is lost, rows describe files, a rebuild ends.

**Choice of lyrics** (`worker/pipeline.py` from `_web_references` to
`_resolve_lyrics`, `worker/lyrics.py`, `lyrics_quality.py`, `manual_reference.py`,
`word_vote.py`). State: the record, the references, the transcripts and the
alignment of one song, then its two files and their provenance. Hard: a record of
another song or another cut looks like the right one, the aligner fits any text to
any song, evidence may be absent or mislead on every path, references are fetched
for a record that is dropped later. Correct if: another song's words are shipped only
where nothing could tell, the right words are not lost to the gates, each reference
corrects only what it is meant for, and the two files agree.

**Timing of curated lyrics** (`_select_lyrics`, and `estimate_lrclib_offset`,
`merge_lrclib_word_tags`, `aligned_text_agreement` in `lyrics.py`). Pure functions
on lines with times. Hard: repeated lines, dropped lines, misplaced lines. Correct
if: the shift is the delay of the audio, a well placed line is not lost, what is
shipped is on time.

**Reference look-ups** (`LyricsSource` in `worker/lyrics.py`; `worker/genius.py`,
`web_reference.py`, `canonical.py`, `asr_reference.py`, `llm_corrector.py`). State:
the cache of `LyricsSource`, shared by the worker threads, and one flag per thread.
Hard: any answer may fail or be of the wrong cut; a failed look-up must not be
remembered as a miss. Correct if: no wrong cut is believed, a cached miss is one,
every look-up ends.

**Auth and extension tokens** (`api/auth.py`, `api/tokens.py`). Token rows with
issue, use and revoke.

**GPU handler images** (`src/docker/runpod/handler.py`, `src/docker/vast/server.py`).
Separation, transcription, alignment, and the recovery of lines whose alignment is
missing or doubtful: crops of the vocals are decoded anew under budgets of crops,
audio and time. Hard: lines are accepted one by one from different crops; the work
list grows while it is worked off; any step may fail. Correct if: a recovered line
is where it is sung, budgets hold, a failure costs no line that was good.

The rest: **provisioning and release scripts** (`src/scripts/`), **SPA and player**
(`src/web/`), **Chrome extension** (`src/extension/chrome/`), **Android submitter**
(`src/mobile/android/`), **mock worker** (`api/worker_stub.py`).

They interact through the database (requests, worker, boot, rebuild, budget), the
hub (worker and requests publish, feeds read), the file tree (worker, delete,
rebuild, review), the cookie registry (request to worker) and asyncio tasks
(request and boot start workers). Everything but the GPU clients, which run in
threads, shares one event loop: what interleaves is the code between two awaits.

## 2. Modules

| module | what it models | state |
|---|---|---|
| `JobPromise` | abstract: unborn, live, ended, gone, and who may still write over an end | done |
| `JobLifecycle` | job rows, the requests, the worker, cookies, files, hub cache and heartbeats, restart and reconcile | done |
| `JobLifecycle_proofs` | its theorems | done |
| `GpuSpend` | GPU windows on RunPod, the capacity ladder, the second window, the 24-hour budget | done |
| `GpuSpend_proofs` | its theorems | done |
| `ProgressFeed` | publishing, queues, replay, both WebSocket feeds, slow sockets, restart | done |
| `ProgressFeed_proofs` | its theorems | done |
| `LyricsPromise` | abstract: lyrics that change as a whole, reviews that replace what was shown | done |
| `LyricsStore` | files, rows, lock and backups under rebuilds, reviews, the delete, faults of disk, database and process | done |
| `LyricsStore_proofs` | its theorems | done |
| `LyricsSource` | the ladder of requests to LRCLIB, its gates, its cache under several threads | done |
| `LyricsSource_proofs` | its theorems | done |
| `LyricsChoice` | from the first look-up to the two written files, as a decision over what was found | done |
| `LyricsChoice_proofs` | its theorems | done |
| `TimingMerge` | the offset estimate, the word-tag merge, the coverage gate and the fallback, line by line | done |
| `VastWindow` | choose, rent, start, use and destroy machines of vast.ai within a budget | done |
| `VastWindow_proofs` | its theorems | done |
| `GpuHandler` | recovery of doubtful lines in the RunPod image: windows, crops, budgets, acceptance | done |
| `LineTiming_proofs` | the theorems of `TimingMerge` and of `GpuHandler`, and the lemmas on recursion both need | done |
| `Dashboard` | the SPA: the broadcast feed beside list requests whose replies may come out of order | planned |
| `TokenStore` | issue, use and revoke of extension tokens | planned |
| `Extension` | the Chrome extension's receipts and polling alarm | planned |
| `Provision` | the flush window of the endpoint against submits | planned |

The `MC*` modules name the model values and the small sets that the configurations
use. No module declares a RECURSIVE operator: recursion over sequences is written as
recursive functions (`Common`, `LcsPairs`, `AcceptAll`, `Groups`).

The components are composed through what one assumes of another. `JobLifecycle`
takes a GPU window as four outcomes, which `GpuSpend` details for RunPod and
`VastWindow` for vast.ai. `ProgressFeed` takes the worker as a writer that commits
and then publishes, which `JobLifecycle` details. `LyricsChoice` takes a look-up as
an answer of `Answers`, among which is everything `LyricsSource` may end with, and
the alignment as none, a full one, a part or scraps; `TimingMerge` and `GpuHandler`
say what those are made of. `LyricsStore` takes a lyrics pass as one of three
shapes of files, which `LyricsChoice` details.

### JobLifecycle

A step is the code between two awaits. A transaction is two steps, `load` and
`commit`, because the ORM's `session.get` and `session.commit` are two round
trips and other coroutines run between them; `publish` is the code after the
session is closed. `tx` names the transaction: a stage (`_set_stage`), `metadata`,
the attempt and backoff of the capacity ladder, `warming` (a cold start),
`completed` (the final one) and `failed` (`_mark_failed`). `Apply` gives what a
commit writes: since the ORM writes only changed columns and matches by primary
key, a commit writes its status whatever the row says now, and an UPDATE that
matches no row raises. `Writes`, `Silent` and `MayNoop` say what each transaction
assigns, whether it announces a stage and whether it may have nothing to write.

| action | code |
|---|---|
| `StageUpload`, `InsertJob`, `InsertFails`, `DispatchJob`, `RefreshFails` | `create_job`, `create_upload_job` |
| `Claim` | the start of `run_real_job`: cookies leave the registry before anything is read |
| `LoadLive`, `LoadHalted`, `CommitStage`, `CommitStale`, `PublishStage` | `_set_stage`, `_mark_failed`, the inline transactions |
| `Probe`, `ProbeRejects`, `Fetch`, `GpuDone`, `GpuCold`, `GpuBusy`, `Export`, `Resolve`, `WorkFails` | the work between transactions |
| `DbFault`, `CommitAckLost` | a round trip raises; a durable commit whose answer is lost |
| `CancelLoad` ... `CancelUnanswered`, `DeleteLoad` ... `DeleteCleanup`, `ClearLoad` ... `ClearCleanup` | the handlers |
| `Crash`, `ReconcileRows`, `ReconcileDispatch` | a restart, `reconcile_jobs` |

Left out: authorization, validation that rejects a request before it changes
anything, progress percentages, the mock worker.

### GpuSpend

A song is a pipeline run or a rebuild; each drives one client. `pc` follows
`RunpodClient.run`: `run` (the daily cap), `submit`, `poll` (ceilings and caps),
`asking` (a status request is under way), `sleep`, `finally` (cancel), and `settle`,
where the caller decides: submit again (`_run_gpu_with_capacity_retry`, `_gpu_lyrics_pass`),
a second window after a reference was found in the transcript (`Realign`),
`Record` or give up. RunPod (`RunStarts`, `RunEndsBy`, `Accept`) is external: any
run may start, stay queued or end. `Tick` is one poll interval, for every client
that sleeps or waits for an answer. The caps are tested with the clock of before the
request (`asked`) and a window is priced with what the answer says after it
(`worker/runpod_client.py:361`, `606`), and the run goes on meanwhile: that a request
takes at most `MaxAsk` intervals is an assumption, because
`runpod_request_timeout_s` limits each socket operation and not the request. Money is
counted in intervals: cost is execution or wall time times one rate. `Lose` loses the
reply of a submit or a cancel; `Crash` kills the coordinator. `seenSpent`, `unheard`
and `lost` are ghosts for the properties. Left out: transfers through R2, what the
handler computes, the 480 s wait of a cold start (only that it costs a pipeline no try).

### ProgressFeed

A stage is a number; `End` is terminal, `End - 2` is the stage of the GPU window
and `End - 1` is `finalizing`, which is published and never in the table. A
writer commits and then publishes. `Publish`, `Heartbeat` and `Forget` are the hub's
methods, each without an await. A client of `/ws/{id}` is subscribed and looks at
the cache in one step (`Connect`), may have to read the row (`ReadRow`), is sent
the stage and then the heartbeat (`SendReplay`, `SendReplayBeat`), and only then
its pump starts. On `/ws` the pump runs beside the replay of a narrowed feed
and the two share a lock. `Take` and `Send` are the pump of a socket that may be
slow. `shown` is what a client that takes over every status sees, as the SPA's
`parseJobEvent` and its caller do. The writers of one job take turns here, and
with `BusyEnds` FALSE no job is cancelled or deleted in its GPU window: what
happens then is described in section 5.

### LyricsStore

A file stands for its writer, and so does the size in an artifact row: `files` and
`sizes` are functions to writers. A step is what a coroutine does between two awaits;
`held` is the row lock of `SELECT .. FOR UPDATE`, which others wait for.

| action | code |
|---|---|
| `Request`, `Start` | `_start_lyrics_rebuild`, `check_rebuildable` on the request and again in the task |
| `Acquire`, `SetNote`, `End`, `Overrun` | `acquire_lock`, `_set_note`, the `finally` of `rebuild_lyrics`, the 45 minutes of `_lock_alive` |
| `Backup`, `Swap`, `SwapCommit` and `SwapRefused`, `SwapBreaks`, `SwapCommitFails` | `_swap_in`: backups, the row lock, four files, artifact rows, commit, and what may fail |
| `ComputeFails`, `Fail` | the `except` of `rebuild_lyrics` |
| `See`, `Put`, `Write`, `WriteFails`, `ReviewCommit`, `ReviewCommitFails`, `Reconcile`, `ReconcileFails` | `get` and `put` of a lyrics review with the roll-back and `_reconcile_unconfirmed_commit` |
| `DeleteRow`, `RemoveTree` | `delete_job`, `_remove_artifact_files` |
| `Crash`, `CrashInSwap`, `CrashInWrite` | a kill between two steps, or between two files |

`saved`, `late`, `unsettled` and `troubles` are ghosts. `WriteFails` restores every
file: that the roll-back itself may fail (`api/lyrics_review.py:237-245`) is left out;
what a half-done set of files then means, `SwapBreaks` and `CrashInWrite` show. Left out: what a lyrics pass
computes, authorization, the markup of a review.

### LyricsSource

A record has an artist, a title (a set of words), a duration and a body; a request
is an exact get, a search by artist, a search by title alone, or one for another
edition. `Bodies` is what LRCLIB may answer: up to two records that fit. `Scoped`
and `Ladder` are the rungs of `fetch`, `Best` and `Points` the ranking, `PickGated`
and `Salvage` what a search by title alone may take, `Refused` and `Fails` a request
without an answer; `Conclude` decides what is cached. `BeginText` is
`search_by_text`. A thread's flag `shaky` is the thread-local of `_request`. Left
out: the clean-up of titles (`titles.py`, whose result is the record's `variants`)
and HTTP itself.

### LyricsChoice

`runner` tells a job on RunPod, one on vast.ai, a rebuild and pasted lyrics apart;
`pc` follows `run_real_job` (and `_gpu_lyrics_pass` of a rebuild): `Canonical`,
`LookUp`, `Genius`, `AskSite`, the `Window`, then what the transcript gives rise to
(`Identify`, `Realign`, `Quote`), then `_resolve_lyrics`: `ResolveGuard`, `Select`
with a branch per precedence, `Vote`, `Policy`, `Llm`; `Paste` is
`merge_reference_with_asr`. Whose song a text is of (`song`) is known to no code;
`Agreement` says what the bigram metric may come to between a transcript and a text:
this is the model's assumption about it, and `NotAnotherSong` and `RightWordsKept` are
as good as it is. It takes from the code's own notes that a decode in another language
may be what is sung, so that a text in another script than the title's may agree with it
(`worker/pipeline.py:1408-1410`), and that loops count each time. How well the timing of
a record fits is not assumed at all: the coverage gate and the shift may come out either
way (`covered`, `Shifts`), and `TimingMerge` says when. Left out: the metrics themselves.

### TimingMerge

A line has a text and the times of its tags; the aligner drops it or places it by a
`Placing` (`Place`, `Drop`). `Cells`, `Edge`, `Both`, `Up` and `Back` are the table of
`_lcs_pairs` and the moves through it. `Deltas`, `Median`, `Spread` and `Reliable` are the
offset estimate over `LcsPairs`; where the code sorts the deltas and indexes them, the
model asks for the one at that place (`Smallest`). `MergeLine` is the loop of `merge_lrclib_word_tags`, one
line at a time, with its `Drifted` and deferred entries; `Rejected`, `Faithful` and
`Ship` are the gate. `delay`, how far this audio runs behind the record, is known to no
code. Left out: the splice of word tags into a line, whose only effect on control is
`timing`; and a record's lines without a tag (`worker/lyrics.py:602-606`), whose text
`lrc_to_plain` sends to the aligner as well, so that the aligner may return entries for
which the merge has no line: the properties are of records whose every line is tagged.

### VastWindow

Time is counted in units of two minutes, money as price times time. `SelectOffers`
sorts what the market lists; `Rent`, `RentRefused`, `RentUnanswered` and `RentBroken`
are the outcomes of `_create_instance`; `WaitForSsh` and `WaitRemoteReady` poll under
`startup_deadline`; `Release` gives a machine that did not start back; `Begin`,
`Demucs` and `Whisper` are the tunnel and the two calls of `run`; `Finally` and
`Destroy` end it; `Kill` kills the coordinator. `live` and `spent` are what vast.ai
knows. The timeout of a call (`worker/vast_client.py:536`) is httpx's, a limit of each
connect, read and write: `Post` lets the answer take all of it and the transfers come on
top, as far as `TransferTime`, a bound that nothing in the code enforces. Left out:
parsing of offers, the sweep of orphans.

### GpuHandler

Times are half seconds, a phrase of the transcription is a text with a start, an end
and a verdict on its confidence. `FullPass` looks for a line in the full
transcription; `PlanCrops` computes a `Window` for each open line, merges windows that
overlap (`Groups`) and orders them; `Crop`, `CropFails` and `SkipCrop` work the queue
off, with a second context for faint words (`Alternates`); `Accept` and `Clashes` decide
what a line takes; `Finish` and `RetriesFail` end it. `Budget` is what comes between a
good alignment and the retries (`handler.py:1348-1352`), and may find no time left;
`error` is which of the two nested handlers took a failure, and `aligned_lrc` what
`Return` puts into the result. A crop may hear phrases that overlap. `Groups` takes the windows one by
one in the order in which they start (`Earliest`), `AcceptAll` the rows of a crop in
theirs. `SongsAssumption` says what alignment and transcription may deliver: times from
the start of the song, ends no earlier than starts, and nothing heard that starts after
the song's end. The last one matters: an anchor past the end would let two windows be
cut down to one and the same crop. Left out: separation, transcription and alignment as
such, languages, the score of a line.

## 3. Runs

| run | instance | distinct states | what it shows |
|---|---|---|---|
| `lifecycle` | one URL job; cancel, delete, clear; 1 restart, 1 capacity retry, no database fault | 6,686 | types; `LiveRowHasOwner`, `CookieOwned`, `SettledJobIsQuiet`; `EndedJobStays`; `KeepsPromise` (refinement of `JobPromise`); `EveryJobSettles`, `CancelUnwinds` |
| `lifecycle_pair` | an uploaded and a URL job; delete, clear; 1 restart, 1 database fault anywhere | 1,063,022 | `CompletedServable` |
| `gpu_spend` | a job and a rebuild; queue ceiling 1, wall ceiling 3, caps 1 and 2, a status request of up to one interval, 1 lost message, any number of kills | 483,675 | types; `LiveRunIsWatched`, `CostNearCap`, `OwnCapKept`, `WindowCloses` |
| `progress_feed` | one job, one client, queue of 2, 1 note, 2 heartbeats, 2 connects, 1 restart | 273,858 | `JobFeedSeesEnd`, `EndIsShown` |
| `bug_cancel_clobbered` | one job | counterexample | a cancel is overwritten by `failed` |
| `lyrics_store` | two rebuilds, one review, a delete, 1 fault, 1 overrun of the lock | 216,654 | `OneRebuild`, `ReviewKept`, `RowsDescribeFiles`, `KeepsPromise` (refinement of `LyricsPromise`), `RebuildEnds` |
| `bug_review_lost` | one rebuild, one review | counterexample | a review is overwritten and no backup has it |
| `lyrics_source` | two threads, four songs asked for, eight records, at most two in an answer | 22,337 | `NoWrongCut`, `WrongCutIsKept`, `CachedMissIsTrue`, `LookupEnds` |
| `lyrics_choice` | four kinds of run, three settings, every answer of the outside | 289,208 | `NotAnotherSong`, `RightWordsKept`, `CorrectedByOne`, `FilesAgree` |
| `vast_window` | six offers of three hosts, three attempts, transfers of up to two units, 1 lost call or kill | 182,413 | `InstanceOwned`, `CostCovers`, `SpendBounded` |
| `gpu_handler` | songs of three lines in four layouts, three crops | 1,063,742 | `RecoveredAreSung`, `BudgetKept`, `FirstContextsFirst`, `BaselineSurvives` |
| `timing_merge` | three records of five lines, delays of 0, 2 and 4 seconds, five placings | 501,615 | `GoodTagsLand`, `ShiftIsTheDelay`, `CuratedOnTime` |

The passing runs explore their instance completely. The violation runs each check
one sentence of the code's own comments; `PROJECT.json` quotes it. Every module from
`LyricsStore` on but `TimingMerge` states a `TypeOK` that is none of the runs' properties (that of
`LyricsStore` is a theorem); it holds and can be added to each configuration.

**Bounds.** Jobs interact in `JobLifecycle` only through clear-failed, which one
request runs over several rows, so two jobs show what one cannot; the proofs hold
for any number. A second restart meets the same states as the first: nothing but
the row and the file tree survives one. One capacity retry makes the ladder's
first, middle and last turn different. In `GpuSpend` a wall ceiling of 3 leaves
room for a run that starts before the queue ceiling, one that starts after, and
one that never ends; the caps make the per-job cap, the queue ceiling and the wall
ceiling each the first to trip, and a request of one interval makes the charge pass the
cap that was just tested; kills need no bound, since every song ends at one. With one try per song a rebuild never submits again
and a job does so after a cold start; the theorems cover any number of tries. In `ProgressFeed` a queue of 2 is
full after one stage and one heartbeat, and `NotesPerJob < QueueMax` is what the
code has too: after the terminal frame a worker publishes at most one error event
(in 256). In `LyricsStore` two rebuilds
meet at the request, at the lock and at its overrun; a second review would only
repeat what a rebuild does to the first, and the proofs hold for any number. In
`LyricsSource` the four songs are a clip with a release in another script, one
without a release, one without a length and one without an artist, and the records
are near, far, of unknown length, junk and instrumental; each thread makes one
look-up, and the second meets the cache that the first filled. `LyricsChoice` bounds
only how often a quoted line finds nothing. In `VastWindow` the budget (21) trips
between the second and the third machine and the poll (2) may overshoot the deadline;
units are so coarse that a call to vast.ai takes at most one, and a GPU call may take
two more than its timeout. `GpuHandler` has the two lines
of one text side by side and apart, a song of unknown length and a line that nothing
can match; three crops and fifty half seconds of audio make each budget the first to
trip. `TimingMerge` scales the thresholds of 6, 10 and 12 lines down to 2 and 3 with
records of five, and has every pattern of dropped and misplaced lines.
Deadlock is not checked: all components may come to rest, every job ended
and every bound used up.

**Fairness.** `SchedulerFairness`: an asyncio task or a started request that can
run does run; the boot ends. Nothing is assumed of clients. `PoolWarmsUp`: the GPU
pool does not answer "initializing" for ever; without it `EveryJobSettles` fails,
because a cold start is retried on no budget (`_run_gpu_with_capacity_retry`), and the
strong form is needed because the worker leaves the window between two answers.
`GpuSpend` assumes that the client's thread runs, a status request ends within `MaxAsk`
and time passes, and nothing of RunPod: `WindowCloses` holds though status
requests may fail for ever. `ProgressFeed` assumes that a feed with work to do runs
and that a writer that has committed publishes; sockets may be slow, not stuck.
In `LyricsStore` a coroutine that was started runs on, and one that waits for a row
lock which is free again and again gets it (strong fairness: PostgreSQL queues the
waiters); nobody has to make a request. In `LyricsSource` a thread with a request
under way proceeds, because each request has a timeout and a number of tries.
The other modules state safety only and assume no fairness.

## 4. Proofs

`JobLifecycle_proofs`, from the named assumptions of the module (`JobsAssumption`,
`BoundsAssumption`, `CallsAssumption`), for any set of jobs, restarts and faults:

- `TypeCorrect`: `TypeOK` with `Shape`, which ties the control variables to each
  other (an open transaction exactly at `load`, `commit`, `publish`; a loaded status
  exactly at `commit`; a worker only of a job whose request has dispatched it).
  Everything else rests on it.
- `CookiesOwned`: `CookieOwned` is inductive with `Shape`.
- `CompletedIsServable`: needs `Servable`, that the final transaction is entered
  with the export directory there or the row gone, and that a delete in flight has
  lost its row by the time it removes files.
- `NoRowStranded`, `SettledIsQuiet`, `EndsStay`: from `Settled`, which follows the
  worker to its end: what a worker that has ended its row can still do, and which
  transaction can still be open. They assume `MaxDbFaults = 0`: with database
  errors they fail in the code, see below.
- `PromiseKept`: every step of `JobLifecycle` is a step of `JobPromise` or none
  (`StepPromise`, one case per action), under the refinement mapping `Phase`,
  `Late`. It needs `Answered`: a transaction that loaded an ended status is
  `_mark_failed`'s, and a completed row's worker has only its announcement left.

`GpuSpend_proofs`, from `SongsAssumption` and `LimitsAssumption`, for any songs,
tries, ceilings, caps, losses, kills and however long a request may take:

- `SpendTypes`: `TypeOK`, with the bound on tries.
- `RunsAreWatched`: `LiveRunIsWatched` is inductive with `TypeOK`.
- `ChargesStayNear`: `CostNearCap`. `Clocks` says that execution never outruns the wall
  clock, the clock no more than `MaxAsk` the one last tested, and that one passed the
  ceiling and the cap; `PriceNearCap` draws the price of a window from it. `Accounts`
  adds that a window is charged once and that only finished songs are in the sum.
- `OwnCapIsKept`: needs `View`: what the client believes was spent (`prior`) is the
  sum it read plus, for a rebuild, its first window, and a client beyond the daily
  check has room for one more window; what its last request takes is the excess.

`ProgressFeed_proofs`, from `NamesAssumption` and `BoundsAssumption`, for any jobs,
clients, connections and restarts, and whether or not `BusyEnds`:

- `FeedTypes`: `TypeOK`, with the bound on the queues.
- `EndReachesFeed`: `JobFeedSeesEnd`. It says what a client *will* show and is not
  inductive; `Delivered` is. It names where the end of a job is (`OnItsWay`: in
  the queue with notes alone behind it, in the pump's hand, in the replay, or
  shown), that a job feed carries its job only and the pump waits for the replay
  (`Wire`), and that an ended job has no heartbeat, running or cached (`Still`).
  That a full queue drops another frame than the end rests on `NotesPerJob <
  QueueMax`: fewer frames can follow the end than a queue holds (`PushKeepsEnd`).

`LyricsStore_proofs`, from `WritersAssumption` and `BoundsAssumption`, for any number of
rebuilds, reviews, faults and overruns:

- `StoreTypes`: `TypeOK`, which says that the row lock is held by exactly the writer
  whose transaction is open; the other proofs rest on it.
- `ReviewsAreKept`: needs `Guarded`, that a review between its compare and its write
  still has the revision it saw, in the files and in a backup, and `Safe`, that what
  a waiting rebuild would overwrite is in a backup but for the reviews in `late`.
- `RebuildsExclude`: needs `Owned`: who runs owns the lock and the lock is alive until
  the job is deleted or a lock runs out.
- `RowsAreTrue`: needs `Settled`, which includes the review that is about to compare and
  correct the rows.
- `StoreKeepsPromise`: every step is one of `LyricsPromise` or none; it needs
  `Present`, that a job that is there has its metadata file.

`LyricsSource_proofs`, from `SourceAssumption`, `VariantsAssumption` (the clean-up of a
title does not give the title back) and `NoneAssumption` (a record's words are not
nothing), for any threads, metadata, records and length of the ladder:

- `WrongCutsAreRefused`: `NoWrongCut` speaks of answers and of the cache; the invariant
  `AllSound` adds that words put aside are no hit, and the proof that the key of the
  cache carries both durations.
- `CutsAreKept`: needs `AllSteady`, which follows the agenda of every look-up. `Keeps` says
  that a look-up which met the song in another cut has its words aside, and neither has
  asked nor will ask for the track alone; that the ladder keeps this as it skips titles
  (`NextTitles`), puts editions in front and climbs on a failure is one lemma each.
- `MissesAreTrue`, the action property `CachedMissIsTrue`: from `Thorough`, that every
  request the metadata call for was asked, is on the agenda, or was passed over for
  words that forbid a miss, and that a failure is remembered in `shaky`.

`LyricsChoice_proofs`, for any settings, runners and number of misses: `OthersStayOut`,
`RightWordsStay`, `OneHandCorrects` and `BothFilesAgree`, all from one invariant.
`Guarded` is what the wrong-song guard establishes and every later step keeps, `Judged`
on which evidence a record was dropped; `Placed` says that words which were not dropped
are what the files are based on; `Corrected` who may have corrected what so far, and that
the provenance tells; `Honest` ties the files to the record they came from, `Paired` one
to the other; `Timed` says that what a web reference corrects was written; `Pasted` that
pasted lyrics meet no look-up. What a good or a poor agreement tells is one lemma
(`AgreementTells`), the only place where the assumption about the metric enters.

`LineTiming_proofs` on `TimingMerge`, from `TimesAreWhole`, `RecordsAreTimed` and
`ThresholdsAreCounts`, for records of any length and any placing of the aligner's lines:

- `NothingGoodIsLost`: `Unmissed` is the invariant of the walk: what the cursor has passed
  has landed, and the entry it faces belongs to this line or a later one, so an entry
  that does not fit here is deferred and not thrown away.
- `ShiftIsMeasured`: `ShiftIsTheDelay`. `Estimated` says that the record is shifted by the
  median or not at all. The lines with one tag keep their order (`CuratedPicks`); in a
  record without repeats the aligner's lines are in step with them, so that the table of
  `_lcs_pairs` counts all equal texts and the walk back through it lists each of them
  once (`CommonCounts`, `LcsPairsAll`); so the deltas are those of the `Telling` lines,
  each once (`DeltasTelling`); and if more than half of a sequence lies in an interval,
  its median does (`MedianOfMost`).
- `ShippedOnTime`: `CuratedOnTime`. Either the record is shifted, and the last theorem
  applies, or `Passed` says that the gate saw some line land, and `Landed` that it is
  within the drift of its own line.

`LineTiming_proofs` on `GpuHandler`, from `BudgetAssumption` and `SongsAssumption`,
for any songs, rows, phrases and budgets. So that one module can extend both, the
specification of `GpuHandler` is `HandlerSpec` (`HandlerInit`, `HandlerNext`). The invariant
is `HandlerInv`:

- `RecoveredWhereSung`: `RecoveredAreSung`. `Neat` says that the recovered rows are in order,
  apart, and heard well in words of their own. That each also lies between the anchors
  next to it is not inductive by itself: a row accepted later becomes an anchor, and moves
  the bounds of the rows around it. `FullSoFar` closes the gap: what the full pass accepted
  is an anchor, so a new one moves a bound only of rows that had no anchor on that side up
  to it (`AnchorGrows`), and against these `Clashes` was asked. Once crops are planned the
  anchors stand still, and `bounds` are theirs.
- `CropsWithinBudget`: `BudgetKept`. `Spent` is the budget; that no two crops that wait are the same rests on
  `Grouped`, which each step of the merge keeps (`MergeKeepsGroups`): the groups end one
  after another, so their spans differ, and no row is in two (`GroupsAre`). `WindowSound`
  says that a window is inside the song and not empty, and `OrdersPlan` that the priorities
  only permute the groups. `Queued` then keeps the queue apart from `planned`.
- `FirstContextsGoFirst`: `FirstContextsFirst`. `Rounds` ties what was decoded to the
  queue: the rows of a first group that waits were not decoded yet, those of a second
  group once, and no row has had two while a first group waits; `Queued` says that
  second groups stand behind all first ones and that no row waits in two.
- `KeptLinesSurvive`: `BaselineSurvives`. `LyricsSoFar` follows the lyrics through the two
  handlers: they are the `Baseline` until the retries finish and for good when these fail,
  the rendering of the kept and the recovered rows otherwise, and no failure amid the
  retries ends a run before `Return`. A rendering has every row of its set once, in order
  (`RenderedAre`).

`VastWindow_proofs`, from the three assumptions on the market:

- `MachinesAreOwned` needs `Owned`, that the client has no machine between two offers.
- `ChargeCovers` and `SpendIsBounded` are from one invariant, `Money`: `Sorted`, that no
  offer left is cheaper than the last one tried, so that charging all of the window at
  the last price is enough (`Covered`); `Reckoned`, that a machine is given up by its
  deadline, the call or poll in flight and its transfers, that what `remote` allows a call ends
  by the deadline, or past it by the tunnel and the grace; and `Capped`, what may have been spent at
  each stage after so many attempts. That the machines billed are the one at work, whose
  price is the rate at which `spent` grows, is `Inv` again.

**Recursion.** The library's induction theorems take an operator as a parameter, which the
provers cannot instantiate. `LineTiming_proofs` goes round them: a least number exists
(`LeastNumber`, from the well-foundedness of the naturals), hence induction over a set of
numbers (`Induction`) and over the cells of a table (`TableInduction`), and hence that a
recursive function over a sequence or a table exists (`ChainExists`, `TableExists`) and is
what its definition says. `AcceptAll`, `Those` and `Groups` of `GpuHandler` are recursive
functions of that kind. `LyricsSource_proofs` uses the same for "the first title on the
agenda". `SelectSeq`, `SortSeq` and functions of two arguments mean nothing to `tlapm`,
therefore `Curated` is a recursive function, the table is one over pairs, and the median
is an order statistic.

Only model-checked: all liveness (`EveryJobSettles`, `CancelUnwinds`,
`WindowCloses`, `EndIsShown`, `RebuildEnds`, `LookupEnds`), which is out of the
prover's reach. Every invariant and every action property that a passing run checks is
a theorem.

## 5. What the models show of the code

Two disagreements between the code and its own words have runs, `bug_cancel_clobbered`
and `bug_review_lost`. These formulas are stated in the modules, are no part of a
run, and TLC refutes them:

- `CancelledJobIsQuiet`, `DeletedIsForgotten`, `DeletedLeavesNoFiles` of `JobLifecycle`
  (one URL job, no restart, retry or fault, `SPECIFICATION Spec`): `finalizing` is
  published without a look at the row (`worker/pipeline.py:1525`), so a cancelled
  job is announced and beats on (against `api/routes.py:743-744`, `api/ws.py:28-29`),
  a deleted one comes back in the hub (against `api/routes.py:774-775`,
  `api/ws.py:390`), and its worker leaves files behind (against `api/routes.py:760`).
- `JobCapHolds` of `GpuSpend` (one job, no rebuild, caps 2 and 3, queue ceiling 1, wall
  ceiling 4, requests of up to one interval, no lost message): the cap is tested before
  a status request, and the run goes on while it is answered
  (`worker/runpod_client.py:361`), against `config.py:158`. `CostNearCap` says by how much.
- `DailyCapHolds` of `GpuSpend` (the same instance): the sum of the last 24 hours is read once (`pipeline.py:1479`) and handed to
  the second window as well (1561), against `worker/runpod_client.py:5-7`.
- `CrashLeaksNothing` of `GpuSpend` (the same instance): a killed coordinator leaves
  a run at RunPod, against `worker/runpod_client.py:12-13`.
- `JobFeedIsCurrent` of `ProgressFeed` (no restart): a replay ends with the heartbeat of
  an older stage (`api/ws.py:436`, against `api/ws.py:503` and `70-71`).

Further behaviour seen in the models:

- A database error at the worker's first read, outside its `try`, or between the
  insert and the dispatch of a request, leaves a live row that nobody works on until
  the next boot. This is why three theorems assume `MaxDbFaults = 0`.
- If the answer to the final commit is lost, a completed job is marked failed.
- At the queue ceiling a run that started since the last poll is cancelled while it
  executes; `RunpodCapacityError` is documented as "no compute ran, no cost". The
  wall ceiling and the per-job cap also cancel runs in progress.
- What cancelled and failed windows cost, and a deleted job's cost, is in no sum.
- With `BusyEnds` TRUE, `EndIsShown` fails: a client that connects after a job was
  cancelled in its GPU window is replayed `finalizing`. `JobFeedSeesEnd` still holds.
- On the global feed, frames of other jobs can evict the newest frame of a quiet
  one, and a narrowed feed's replay from the table may arrive after newer frames.


Lyrics store:

- A rebuild that outlives its 45 minutes unlinks the lock of the one that took over,
  so a third may start: `OneRebuild` assumes that none does.
- A disk that fails amid `_swap_in` leaves files of two revisions under rows of the old
  one; nothing repairs it before the next swap or review. The docstring's "in one step"
  (`worker/lyrics_rebuild.py:12-14`) holds only of a disk that works.
- A rebuild that finds an instrumental writes no `lyrics.txt` and leaves the old one.

Look-ups and choice:

- A hit on a late rung is cached though an earlier one failed, and so is a wrong cut's
  rejection: only a miss is held back. The cache key leaves out the release's title.
- The comment on the ladder's number of requests (`worker/lyrics.py:1274`) does not
  count the requests for other editions.
- After a second GPU pass that ends at the floor, `lyrics.txt` is the first transcript
  and `lyrics.lrc` the second (or the first when it loops); `FilesAgree` leaves it out.
- The word vote corrects the timed file by what is sung near a line and the untimed one
  by the whole transcript, so a word may change in one of them alone.
- A record that repeats a block of evenly spaced lines, whose last line the aligner
  drops, can be shifted by a whole block though the aligner is exact: the text
  pairs one block off. `ShiftIsTheDelay` and `CuratedOnTime` are stated for records of
  lines that differ.
- Only records found by the metadata pass the script gate; one found from the transcript
  does not (`worker/pipeline.py:1552-1569`), so a title in one script over a song sung in
  another may end with words in the other. They agree with what was heard.
- `RightWordsKept` names when right words are lost: a transcript that is bad, loops, or is
  in another language where no hint tells so; a title in another script than the words.
- A record's own timing is shipped when 30 % of its lines fit (`worker/pipeline.py:185`)
  or a large majority agree on a delay (`worker/lyrics.py:813-822`): a cut that begins like
  the record may keep timing that is wrong in its rest. `CuratedOnTime` of `TimingMerge`
  says when the timing is right.
- `reconcile_alignment` removes a line by value and may credit the wrong one of two
  identical lines.

GPUs:

- A budget error while a machine of vast.ai starts is a `VastError` like a failed start:
  the loop rents the next offer though the window's deadline has passed, hence the
  overrun per attempt in `SpendBounded`. The ready timeout is compared with a clock that
  starts with the window. Each GPU call gets 120 seconds at least, whatever is left, and
  nothing limits its transfers (`worker/vast_client.py:536`), hence `TransferTime` in the
  overrun: with it as large as the network may make it, the cap has no bound.
- `_destroy_instance` is tried once and its error suppressed, under a comment that says
  ALWAYS; a lost reply to a create and a kill leave a machine too. A `URLError` of the
  create is caught by no clause of the loop and ends the window.
- A `job_budget_s` that is no number fails between a good alignment and the handler that
  guards it (`handler.py:1351`) and costs all lyrics; `BaselineSurvives` begins after it.
  The coordinator always sends a number (`worker/runpod_client.py:281`).
- A first context that the budgets do not allow is passed over, and a shorter second
  context of another line may still be decoded after it. `BudgetKept` keeps apart the crops
  that wait; one decoded before may be decoded again for other rows.
- One phrase of the full transcription may corroborate two neighbouring lines of the same
  text; and a recovered line may begin before a kept neighbour that nothing corroborates,
  because bounds come of corroborated lines only.

## 6. Not modelled, and why

- Auth and extension tokens, the dashboard of the SPA, the Chrome extension and the
  provisioning scripts: planned (section 2). Reading `service_worker.js` for the plan
  showed three orders worth modelling: a poll that writes back the tracked job it read
  before its await over a newer submit, `stopTrackingJob` clearing the alarm of a newer
  submit, and two popups of one tab that submit before the receipt is stored.
- The other look-ups' HTTP and parsing, titles and text normalisation, the metrics of
  `lyrics_quality.py`, the per-word vote: data without control. `LyricsChoice` takes what
  they may answer.
- Separation, transcription and alignment: machine learning; the media transfer.
- The player, the Android submitter: user interface. The mock worker: a stand-in for
  development.

Order of the remaining work: `Extension` and `Dashboard`, which interleave the most,
then `TokenStore` and `Provision`.
