---------------------------- MODULE ProgressFeed ----------------------------
(***************************************************************************)
(* The progress hub and its WebSocket feeds: what a client that follows a  *)
(* job is shown, from the commit of a stage in the jobs table to the frame *)
(* that reaches it.  A stage is a number here, the higher the later; End   *)
(* stands for the three stages that end a job.                             *)
(*                                                                         *)
(* Hub methods run to completion on the event loop.  What interleaves are  *)
(* the awaits: a worker between its commit and its publish, a replay that  *)
(* reads the database, and the pump of a slow socket between taking a      *)
(* frame from its queue and having sent it.                                *)
(***************************************************************************)
EXTENDS Naturals, Sequences

CONSTANTS
  Jobs, Clients,
  All,         \* the global feed, WS /ws; a job j stands for WS /ws/j
  End,         \* the stage that ends a job
  BusyEnds,    \* whether jobs are cancelled or deleted during their GPU window
  QueueMax,    \* frames a subscriber queue holds
  NotesPerJob, \* cost and error frames a job's worker publishes
  MaxBeats,    \* bound: heartbeats of a job
  MaxConnects, \* bound: connections of a client
  MaxRestarts  \* bound: restarts of the coordinator

ASSUME NamesAssumption == All \notin Jobs /\ "closed" \notin Jobs \cup {All}
ASSUME BoundsAssumption ==
  /\ End \in Nat /\ End >= 3 /\ BusyEnds \in BOOLEAN
  /\ QueueMax \in Nat /\ NotesPerJob \in Nat
  /\ NotesPerJob < QueueMax    \* 256 frames in the code, a handful of notes
  /\ MaxBeats \in Nat /\ MaxConnects \in Nat /\ MaxRestarts \in Nat

VARIABLES
  row,       \* the stage in the jobs table
  unsaid,    \* a stage that is to be published next
  window,    \* jobs in their GPU window
  leaving,   \* deleted jobs the hub has not forgotten yet
  latest,    \* ProgressHub._latest_stage
  beat,      \* ProgressHub._latest_heartbeat
  beating,   \* jobs with a heartbeat task
  topic,     \* the feed a client is connected to
  filter,    \* the job a client of the global feed asked for
  queue,     \* its subscriber queue
  sending,   \* the frame its pump is sending
  replay,    \* the replay it waits for
  shown,     \* what it shows of each job
  notes, beats, connects, restarts

jobsTable == <<row, unsaid, window, leaving>>
hub       == <<latest, beat, beating>>
sockets   == <<topic, filter, queue, sending, replay, shown>>
bounds    == <<notes, beats, connects, restarts>>
vars      == <<row, unsaid, window, leaving, latest, beat, beating, topic, filter, queue,
               sending, replay, shown, notes, beats, connects, restarts>>

-----------------------------------------------------------------------------
(* Vocabulary *)

Stages       == 0..End
Transcribing == End - 2  \* the GPU window; the stages before it are not told apart
Finalizing   == End - 1  \* published and never in the table
None         == End + 1  \* no stage, no row, no frame

Frames == [job : Jobs, kind : {"stage", "beat", "note"}, stage : Stages \cup {None}]
Frame(j, k, s) == [job |-> j, kind |-> k, stage |-> s]

\* A replay reads the table if the cache has no stage, sends the stage and then
\* the heartbeat, each under the lock.
Idle == [state |-> "idle", job |-> All, stage |-> None]
Replays == {Idle} \cup [state : {"read", "stage", "beat"}, job : Jobs,
                       stage : Stages \cup {None}]

TypeOK ==
  /\ row \in [Jobs -> Stages \cup {None}]
  /\ unsaid \in [Jobs -> Stages \cup {None}]
  /\ window \subseteq Jobs /\ leaving \subseteq Jobs
  /\ latest \in [Jobs -> Stages \cup {None}]
  /\ beat \in [Jobs -> Stages \cup {None}]
  /\ beating \subseteq Jobs
  /\ topic \in [Clients -> Jobs \cup {All, "closed"}]
  /\ filter \in [Clients -> Jobs \cup {All}]
  /\ queue \in [Clients -> Seq(Frames)]
  /\ \A c \in Clients : Len(queue[c]) <= QueueMax
  /\ sending \in [Clients -> Seq(Frames)]
  /\ \A c \in Clients : Len(sending[c]) <= 1
  /\ replay \in [Clients -> Replays]
  /\ shown \in [Clients -> [Jobs -> Stages \cup {None}]]
  /\ notes \in [Jobs -> 0..NotesPerJob]
  /\ beats \in [Jobs -> 0..MaxBeats]
  /\ connects \in [Clients -> 0..MaxConnects]
  /\ restarts \in 0..MaxRestarts

NoStages == [j \in Jobs |-> None]

Init ==
  /\ row = [j \in Jobs |-> 0]
  /\ unsaid = row /\ window = {} /\ leaving = {}
  /\ latest = NoStages /\ beat = NoStages
  /\ beating = {}
  /\ topic = [c \in Clients |-> "closed"]
  /\ filter = [c \in Clients |-> All]
  /\ queue = [c \in Clients |-> <<>>]
  /\ sending = [c \in Clients |-> <<>>]
  /\ replay = [c \in Clients |-> Idle]
  /\ shown = [c \in Clients |-> NoStages]
  /\ notes = [j \in Jobs |-> 0]
  /\ beats = [j \in Jobs |-> 0]
  /\ connects = [c \in Clients |-> 0]
  /\ restarts = 0

-----------------------------------------------------------------------------
(* Publishing *)

\* Seeded faults: a queue without a bound; a full queue refuses the newest frame.
PushUnbounded(q, f) == Append(q, f)

PushOrDrop(q, f) == IF Len(q) < QueueMax THEN Append(q, f) ELSE q

\* A full queue loses its oldest frame.
Push(q, f) == Append(IF Len(q) < QueueMax THEN q ELSE Tail(q), f)

Fanout(f) ==
  queue' = [c \in Clients |-> IF topic[c] \in {f.job, All} THEN Push(queue[c], f)
                              ELSE queue[c]]

\* The worker commits a later stage and will publish it once the session is
\* closed.  The writers of one job take turns; JobLifecycle has them race.
Commit(j) ==
  /\ row[j] < End /\ unsaid[j] = None
  /\ \E s \in (row[j] + 1 .. End) \ {Finalizing} :
       /\ row' = [row EXCEPT ![j] = s]
       /\ unsaid' = [unsaid EXCEPT ![j] = s]
       /\ window' = IF s = Transcribing THEN window \cup {j} ELSE window \ {j}
  /\ UNCHANGED <<leaving, hub, sockets, bounds>>

\* The GPU window closes: the worker announces it without a look at the row.
Finalize(j) ==
  /\ j \in window /\ unsaid[j] = None
  /\ window' = window \ {j}
  /\ unsaid' = [unsaid EXCEPT ![j] = Finalizing]
  /\ UNCHANGED <<row, leaving, hub, sockets, bounds>>

\* A cancel; the worker notices it later.
Cancel(j) ==
  /\ row[j] < End /\ unsaid[j] = None
  /\ j \in window => BusyEnds
  /\ row' = [row EXCEPT ![j] = End]
  /\ unsaid' = [unsaid EXCEPT ![j] = End]
  /\ UNCHANGED <<window, leaving, hub, sockets, bounds>>

\* publish of a stage_change.
Publish(j) ==
  /\ unsaid[j] # None
  /\ unsaid' = [unsaid EXCEPT ![j] = None]
  /\ latest' = [latest EXCEPT ![j] = unsaid[j]]
  /\ IF unsaid[j] = End
       THEN beating' = beating \ {j} /\ beat' = [beat EXCEPT ![j] = None]
       ELSE beating' = beating \cup {j} /\ UNCHANGED beat
  /\ Fanout(Frame(j, "stage", unsaid[j]))
  /\ UNCHANGED <<row, window, leaving, topic, filter, sending, replay, shown, bounds>>

\* A cost_update or an error event; the hub does not keep it.
Note(j) ==
  /\ notes[j] < NotesPerJob
  /\ notes' = [notes EXCEPT ![j] = @ + 1]
  /\ Fanout(Frame(j, "note", None))
  /\ UNCHANGED <<jobsTable, hub, topic, filter, sending, replay, shown,
                 beats, connects, restarts>>

\* The heartbeat task repeats the stage the hub knows.
Heartbeat(j) ==
  /\ j \in beating /\ latest[j] # None /\ beats[j] < MaxBeats
  /\ beats' = [beats EXCEPT ![j] = @ + 1]
  /\ beat' = [beat EXCEPT ![j] = latest[j]]
  /\ Fanout(Frame(j, "beat", latest[j]))
  /\ UNCHANGED <<jobsTable, latest, beating, topic, filter, sending, replay, shown,
                 notes, connects, restarts>>

\* A delete commits; then the hub forgets the job.  No event announces it.
DeleteRow(j) ==
  /\ row[j] # None
  /\ j \in window => BusyEnds
  /\ row' = [row EXCEPT ![j] = None]
  /\ leaving' = leaving \cup {j}
  /\ UNCHANGED <<unsaid, window, hub, sockets, bounds>>

Forget(j) ==
  /\ j \in leaving
  /\ leaving' = leaving \ {j}
  /\ latest' = [latest EXCEPT ![j] = None]
  /\ beat' = [beat EXCEPT ![j] = None]
  /\ beating' = beating \ {j}
  /\ UNCHANGED <<row, unsaid, window, sockets, bounds>>

-----------------------------------------------------------------------------
(* Connections *)

\* Seeded fault: the table is never asked.
AskCache(j) ==
  IF latest[j] = None THEN Idle ELSE [state |-> "stage", job |-> j, stage |-> latest[j]]

\* The cached stage if there is one; else the replay goes to the table.
AskReplay(j) ==
  [state |-> IF latest[j] = None THEN "read" ELSE "stage", job |-> j, stage |-> latest[j]]

\* Accept, subscribe and look at the cache, without an await between the two.
Connect(c, t) ==
  /\ topic[c] = "closed" /\ connects[c] < MaxConnects
  /\ connects' = [connects EXCEPT ![c] = @ + 1]
  /\ topic' = [topic EXCEPT ![c] = t]
  /\ filter' = [filter EXCEPT ![c] = All]
  /\ queue' = [queue EXCEPT ![c] = <<>>]
  /\ replay' = [replay EXCEPT ![c] = IF t = All THEN Idle ELSE AskReplay(t)]
  /\ shown' = [shown EXCEPT ![c] = NoStages]
  /\ UNCHANGED <<jobsTable, hub, sending, notes, beats, restarts>>

\* A client of the global feed narrows it to one job and asks for its replay.
Narrow(c, j) ==
  /\ topic[c] = All /\ replay[c] = Idle
  /\ filter' = [filter EXCEPT ![c] = j]
  /\ replay' = [replay EXCEPT ![c] = AskReplay(j)]
  /\ UNCHANGED <<jobsTable, hub, topic, queue, sending, shown, bounds>>

\* The socket is closed: unsubscribe and drop what is under way.
Hangup(c) ==
  /\ topic' = [topic EXCEPT ![c] = "closed"]
  /\ filter' = [filter EXCEPT ![c] = All]
  /\ queue' = [queue EXCEPT ![c] = <<>>]
  /\ sending' = [sending EXCEPT ![c] = <<>>]
  /\ replay' = [replay EXCEPT ![c] = Idle]
  /\ shown' = [shown EXCEPT ![c] = NoStages]

Disconnect(c) ==
  /\ topic[c] # "closed"
  /\ Hangup(c)
  /\ UNCHANGED <<jobsTable, hub, bounds>>

\* Hub miss: the row becomes the frame.  An unknown job ends the replay, and a
\* job feed with it.
ReadRow(c) ==
  /\ replay[c].state = "read"
  /\ LET s == row[replay[c].job] IN
     IF s # None
       THEN /\ replay' = [replay EXCEPT ![c].state = "stage", ![c].stage = s]
            /\ UNCHANGED <<topic, filter, queue, sending, shown>>
       ELSE IF topic[c] = All
       THEN /\ replay' = [replay EXCEPT ![c] = Idle]
            /\ UNCHANGED <<topic, filter, queue, sending, shown>>
       ELSE Hangup(c)
  /\ UNCHANGED <<jobsTable, hub, bounds>>

Show(c, j, s) == shown' = [shown EXCEPT ![c][j] = s]

\* The replay takes the send lock, which the pump does not hold.  When the stage
\* is out, it looks for the last heartbeat.
SendReplay(c) ==
  /\ replay[c].state = "stage" /\ sending[c] = <<>>
  /\ LET j == replay[c].job IN
       /\ Show(c, j, replay[c].stage)
       /\ replay' = [replay EXCEPT ![c] =
                       IF beat[j] = None THEN Idle
                       ELSE [state |-> "beat", job |-> j, stage |-> beat[j]]]
  /\ UNCHANGED <<jobsTable, hub, topic, filter, queue, sending, bounds>>

SendReplayBeat(c) ==
  /\ replay[c].state = "beat" /\ sending[c] = <<>>
  /\ Show(c, replay[c].job, replay[c].stage)
  /\ replay' = [replay EXCEPT ![c] = Idle]
  /\ UNCHANGED <<jobsTable, hub, topic, filter, queue, sending, bounds>>

\* The pump takes the next frame.  On a job feed it starts after the replay; on
\* the global feed it runs beside it, and the two take turns with the lock.
Take(c) ==
  /\ queue[c] # <<>> /\ sending[c] = <<>>
  /\ replay[c] = Idle \/ topic[c] = All
  /\ queue' = [queue EXCEPT ![c] = Tail(@)]
  /\ sending' = [sending EXCEPT ![c] =
                   IF filter[c] \in {All, Head(queue[c]).job}
                     THEN <<Head(queue[c])>> ELSE <<>>]
  /\ UNCHANGED <<jobsTable, hub, topic, filter, replay, shown, bounds>>

\* The frame is out: stages and heartbeats carry the job's status.
Send(c) ==
  /\ sending[c] # <<>>
  /\ LET f == Head(sending[c]) IN
       IF f.kind = "note" THEN UNCHANGED shown ELSE Show(c, f.job, f.stage)
  /\ sending' = [sending EXCEPT ![c] = <<>>]
  /\ UNCHANGED <<jobsTable, hub, topic, filter, queue, replay, bounds>>

\* The coordinator restarts: hub and sockets are gone, and jobs under way are
\* failed out before it serves.
Restart ==
  /\ restarts < MaxRestarts
  /\ restarts' = restarts + 1
  /\ row' = [j \in Jobs |-> IF row[j] \in {0, None} THEN row[j] ELSE End]
  /\ unsaid' = NoStages /\ window' = {} /\ leaving' = {}
  /\ latest' = NoStages /\ beat' = NoStages
  /\ beating' = {}
  /\ topic' = [c \in Clients |-> "closed"]
  /\ filter' = [c \in Clients |-> All]
  /\ queue' = [c \in Clients |-> <<>>]
  /\ sending' = [c \in Clients |-> <<>>]
  /\ replay' = [c \in Clients |-> Idle]
  /\ shown' = [c \in Clients |-> NoStages]
  /\ UNCHANGED <<notes, beats, connects>>

-----------------------------------------------------------------------------
Feed(c) == ReadRow(c) \/ SendReplay(c) \/ SendReplayBeat(c) \/ Take(c) \/ Send(c)

Next ==
  \/ \E j \in Jobs : Commit(j) \/ Finalize(j) \/ Cancel(j) \/ Publish(j)
                       \/ Note(j) \/ Heartbeat(j) \/ DeleteRow(j) \/ Forget(j)
  \/ \E c \in Clients : \/ \E t \in Jobs \cup {All} : Connect(c, t)
                        \/ \E j \in Jobs : Narrow(c, j)
                        \/ Disconnect(c) \/ Feed(c)
  \/ Restart

Spec == Init /\ [][Next]_vars

\* The event loop runs a feed that has something to do, and a writer that has
\* committed goes on to publish.
FairSpec ==
  /\ Spec
  /\ \A c \in Clients : WF_vars(Feed(c))
  /\ \A j \in Jobs : WF_vars(Publish(j))

-----------------------------------------------------------------------------
(* Properties *)

\* The statuses of j on their way to c, in order: in the pump's hand, then in
\* the queue.
Pipe(c) == sending[c] \o queue[c]
Coming(c, j) == {i \in 1..Len(Pipe(c)) : Pipe(c)[i].job = j /\ Pipe(c)[i].kind # "note"}

\* Once everything on its way has arrived, c will show s for j.
WillShow(c, j, s) ==
  IF Coming(c, j) # {}
    THEN \E i \in Coming(c, j) :
           Pipe(c)[i].stage = s /\ \A k \in Coming(c, j) : k <= i
  ELSE IF replay[c] # Idle THEN replay[c].stage = s
  ELSE shown[c][j] = s

\* When the hub knows that a job has ended, every client of the job's feed
\* shows that or will: no full queue, replay or heartbeat loses or overtakes it.
JobFeedSeesEnd ==
  \A c \in Clients, j \in Jobs :
    topic[c] = j /\ latest[j] = End => WillShow(c, j, End)

\* A client of a job's feed is shown the end of the job, also when the end came
\* before the client did or before a restart, unless it disconnects or the job
\* is deleted.  (Not if a cancel falls into a GPU window: the finalizing event
\* that follows hides it from those who connect later.)
EndIsShown ==
  \A c \in Clients, j \in Jobs :
    (topic[c] = j /\ row[j] = End)
      ~> (shown[c][j] = End \/ topic[c] # j \/ row[j] = None)

-----------------------------------------------------------------------------
(* What the code's own words claim, beyond what it does *)

\* api/ws.py: a late subscriber is sent a "replay [of] the latest stage/heartbeat"
\* and the frames are "idempotent snapshots" of which "the newest state always
\* wins": what a job feed will show is what the hub knows.
JobFeedIsCurrent ==
  \A c \in Clients, j \in Jobs :
    topic[c] = j /\ latest[j] # None => WillShow(c, j, latest[j])
=============================================================================
