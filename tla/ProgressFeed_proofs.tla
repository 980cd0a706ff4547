------------------------- MODULE ProgressFeed_proofs -------------------------
(* Proofs about ProgressFeed, for any number of jobs, clients and restarts. *)
EXTENDS ProgressFeed, SequenceTheorems, TLAPS

-----------------------------------------------------------------------------
(* Types *)

\* A push keeps a queue within its bound, and the new frame is its last.
LEMMA PushTyped ==
  ASSUME NEW q \in Seq(Frames), NEW f \in Frames, Len(q) <= QueueMax
  PROVE  /\ Push(q, f) \in Seq(Frames) /\ Len(Push(q, f)) <= QueueMax
         /\ Len(Push(q, f)) >= 1 /\ Push(q, f)[Len(Push(q, f))] = f
  <1> USE BoundsAssumption DEF Push
  <1>1. CASE Len(q) < QueueMax
    BY <1>1
  <1>2. CASE ~(Len(q) < QueueMax)
    <2>1. q # <<>> /\ Len(q) = QueueMax /\ Len(Tail(q)) = QueueMax - 1 /\ Tail(q) \in Seq(Frames)
      BY <1>2
    <2> QED BY <1>2, <2>1
  <1> QED BY <1>1, <1>2

\* A fan-out keeps every queue within its bound.
LEMMA FanoutTyped ==
  ASSUME TypeOK, NEW f \in Frames, Fanout(f)
  PROVE  /\ queue' \in [Clients -> Seq(Frames)]
         /\ \A c \in Clients : Len(queue'[c]) <= QueueMax
  BY PushTyped DEF Fanout, TypeOK

\* What the hub publishes is a frame.
LEMMA FrameTyped ==
  ASSUME NEW j \in Jobs, NEW k \in {"stage", "beat", "note"}, NEW s \in Stages \cup {None}
  PROVE  Frame(j, k, s) \in Frames
  BY DEF Frame, Frames

\* What a disconnect leaves of one client is well typed.
LEMMA HangupTyped ==
  ASSUME TypeOK, NEW c \in Clients, Hangup(c)
  PROVE  /\ topic' \in [Clients -> Jobs \cup {All, "closed"}]
         /\ filter' \in [Clients -> Jobs \cup {All}]
         /\ queue' \in [Clients -> Seq(Frames)]
         /\ \A d \in Clients : Len(queue'[d]) <= QueueMax
         /\ sending' \in [Clients -> Seq(Frames)]
         /\ \A d \in Clients : Len(sending'[d]) <= 1
         /\ replay' \in [Clients -> Replays]
         /\ shown' \in [Clients -> [Jobs -> Stages \cup {None}]]
  <1>1. <<>> \in Seq(Frames) /\ Len(<<>>) = 0
    OBVIOUS
  <1>2. NoStages \in [Jobs -> Stages \cup {None}] /\ Idle \in Replays
    BY DEF NoStages, Replays
  <1> QED BY <1>1, <1>2, BoundsAssumption DEF Hangup, TypeOK

\* The variables start in their types.
LEMMA InitTyped == Init => TypeOK
  <1> SUFFICES ASSUME Init PROVE TypeOK
    OBVIOUS
  <1>1. NoStages \in [Jobs -> Stages \cup {None}] /\ Idle \in Replays
    BY DEF NoStages, Replays
  <1>2. row \in [Jobs -> Stages \cup {None}]
    BY BoundsAssumption DEF Init, Stages
  <1> QED BY <1>1, <1>2, BoundsAssumption DEF Init, TypeOK

\* Every step keeps the variables in their types.
LEMMA NextTyped == TypeOK /\ [Next]_vars => TypeOK'
  <1> SUFFICES ASSUME TypeOK, [Next]_vars PROVE TypeOK'
    OBVIOUS
  <1>0. None \in Stages \cup {None} /\ End \in Stages /\ Finalizing \in Stages
    BY BoundsAssumption DEF Stages, Finalizing
  <1>1. ASSUME NEW j \in Jobs, Commit(j) PROVE TypeOK'
    <2>1. PICK s \in (row[j] + 1 .. End) \ {Finalizing} :
            /\ row' = [row EXCEPT ![j] = s]
            /\ unsaid' = [unsaid EXCEPT ![j] = s]
            /\ window' = IF s = Transcribing THEN window \cup {j} ELSE window \ {j}
      BY <1>1 DEF Commit
    <2>2. row[j] \in Nat
      BY BoundsAssumption DEF TypeOK, Stages, None
    <2>3. s \in Stages
      BY <2>2, BoundsAssumption DEF Stages
    <2> QED BY <1>1, <2>1, <2>3 DEF TypeOK, Commit, hub, sockets, bounds
  <1>2. ASSUME NEW j \in Jobs, Finalize(j) PROVE TypeOK'
    BY <1>0, <1>2 DEF TypeOK, Finalize, hub, sockets, bounds
  <1>3. ASSUME NEW j \in Jobs, Cancel(j) PROVE TypeOK'
    BY <1>0, <1>3 DEF TypeOK, Cancel, hub, sockets, bounds
  <1>4. ASSUME NEW j \in Jobs, Publish(j) PROVE TypeOK'
    <2>1. Frame(j, "stage", unsaid[j]) \in Frames
      BY <1>4, FrameTyped DEF TypeOK
    <2>2. /\ queue' \in [Clients -> Seq(Frames)]
          /\ \A c \in Clients : Len(queue'[c]) <= QueueMax
      BY <1>4, <2>1, FanoutTyped DEF Publish
    <2> QED BY <1>0, <1>4, <2>2 DEF TypeOK, Publish, bounds
  <1>5. ASSUME NEW j \in Jobs, Note(j) PROVE TypeOK'
    <2>1. /\ queue' \in [Clients -> Seq(Frames)]
          /\ \A c \in Clients : Len(queue'[c]) <= QueueMax
      BY <1>5, FrameTyped, FanoutTyped DEF Note
    <2> QED BY <1>5, <2>1, BoundsAssumption DEF TypeOK, Note, jobsTable, hub
  <1>6. ASSUME NEW j \in Jobs, Heartbeat(j) PROVE TypeOK'
    <2>1. Frame(j, "beat", latest[j]) \in Frames
      BY <1>6, FrameTyped DEF TypeOK
    <2>2. /\ queue' \in [Clients -> Seq(Frames)]
          /\ \A c \in Clients : Len(queue'[c]) <= QueueMax
      BY <1>6, <2>1, FanoutTyped DEF Heartbeat
    <2> QED BY <1>6, <2>2, BoundsAssumption DEF TypeOK, Heartbeat, jobsTable
  <1>7. ASSUME NEW j \in Jobs, DeleteRow(j) PROVE TypeOK'
    BY <1>0, <1>7 DEF TypeOK, DeleteRow, hub, sockets, bounds
  <1>8. ASSUME NEW j \in Jobs, Forget(j) PROVE TypeOK'
    BY <1>0, <1>8 DEF TypeOK, Forget, sockets, bounds
  <1>9. ASSUME NEW c \in Clients, NEW t \in Jobs \cup {All}, Connect(c, t) PROVE TypeOK'
    <2>1. <<>> \in Seq(Frames) /\ Len(<<>>) = 0
      OBVIOUS
    <2>2. /\ NoStages \in [Jobs -> Stages \cup {None}]
          /\ (IF t = All THEN Idle ELSE AskReplay(t)) \in Replays
      BY DEF NoStages, Replays, AskReplay, TypeOK
    <2>3. connects' \in [Clients -> 0..MaxConnects]
      BY <1>9, BoundsAssumption DEF TypeOK, Connect
    <2> QED BY <1>9, <2>1, <2>2, <2>3, BoundsAssumption DEF TypeOK, Connect, jobsTable, hub
  <1>10. ASSUME NEW c \in Clients, NEW j \in Jobs, Narrow(c, j) PROVE TypeOK'
    <2>1. AskReplay(j) \in Replays
      BY DEF Replays, AskReplay, TypeOK
    <2> QED BY <1>10, <2>1 DEF TypeOK, Narrow, jobsTable, hub, bounds
  <1>11. ASSUME NEW c \in Clients, Disconnect(c) PROVE TypeOK'
    BY <1>11, HangupTyped DEF TypeOK, Disconnect, jobsTable, hub, bounds
  <1>12. ASSUME NEW c \in Clients, ReadRow(c) PROVE TypeOK'
    <2>1. CASE row[replay[c].job] # None
      <3>1. replay' = [replay EXCEPT ![c].state = "stage", ![c].stage = row[replay[c].job]]
        BY <1>12, <2>1 DEF ReadRow
      <3>2. replay[c] \in [state : {"read", "stage", "beat"}, job : Jobs,
                           stage : Stages \cup {None}]
        BY <1>12 DEF ReadRow, TypeOK, Replays, Idle
      <3>3. row[replay[c].job] \in Stages \cup {None}
        BY <3>2 DEF TypeOK
      <3>4. [replay[c] EXCEPT !.state = "stage", !.stage = row[replay[c].job]] \in Replays
        BY <3>2, <3>3 DEF Replays
      <3>5. replay' \in [Clients -> Replays]
        BY <3>1, <3>4 DEF TypeOK
      <3> QED BY <1>12, <2>1, <3>5 DEF TypeOK, ReadRow, jobsTable, hub, bounds
    <2>2. CASE row[replay[c].job] = None /\ topic[c] = All
      <3>1. Idle \in Replays
        BY DEF Replays
      <3> QED BY <1>12, <2>2, <3>1 DEF TypeOK, ReadRow, jobsTable, hub, bounds
    <2>3. CASE row[replay[c].job] = None /\ topic[c] # All
      <3>1. Hangup(c)
        BY <1>12, <2>3 DEF ReadRow
      <3> QED BY <1>12, <3>1, HangupTyped DEF TypeOK, ReadRow, jobsTable, hub, bounds
    <2> QED BY <2>1, <2>2, <2>3
  <1>13. ASSUME NEW c \in Clients, SendReplay(c) PROVE TypeOK'
    <2>1. replay[c] \in [state : {"read", "stage", "beat"}, job : Jobs,
                         stage : Stages \cup {None}]
      BY <1>13 DEF SendReplay, TypeOK, Replays, Idle
    <2>2. shown' \in [Clients -> [Jobs -> Stages \cup {None}]]
      BY <1>13, <2>1 DEF SendReplay, Show, TypeOK
    <2>3. replay' \in [Clients -> Replays]
      BY <1>13, <2>1 DEF SendReplay, TypeOK, Replays
    <2> QED BY <1>13, <2>2, <2>3 DEF TypeOK, SendReplay, jobsTable, hub, bounds
  <1>14. ASSUME NEW c \in Clients, SendReplayBeat(c) PROVE TypeOK'
    <2>1. replay[c] \in [state : {"read", "stage", "beat"}, job : Jobs,
                         stage : Stages \cup {None}]
      BY <1>14 DEF SendReplayBeat, TypeOK, Replays, Idle
    <2>2. shown' \in [Clients -> [Jobs -> Stages \cup {None}]]
      BY <1>14, <2>1 DEF SendReplayBeat, Show, TypeOK
    <2>3. replay' \in [Clients -> Replays]
      BY <1>14 DEF SendReplayBeat, TypeOK, Replays
    <2> QED BY <1>14, <2>2, <2>3 DEF TypeOK, SendReplayBeat, jobsTable, hub, bounds
  <1>15. ASSUME NEW c \in Clients, Take(c) PROVE TypeOK'
    <2>1. /\ Head(queue[c]) \in Frames /\ Tail(queue[c]) \in Seq(Frames)
          /\ Len(Tail(queue[c])) <= QueueMax
      BY <1>15, BoundsAssumption DEF Take, TypeOK
    <2>2. /\ <<Head(queue[c])>> \in Seq(Frames) /\ Len(<<Head(queue[c])>>) = 1
          /\ <<>> \in Seq(Frames) /\ Len(<<>>) = 0
      BY <2>1
    <2> QED BY <1>15, <2>1, <2>2 DEF TypeOK, Take, jobsTable, hub, bounds
  <1>16. ASSUME NEW c \in Clients, Send(c) PROVE TypeOK'
    <2>1. Head(sending[c]) \in Frames
      BY <1>16 DEF Send, TypeOK
    <2>2. shown' \in [Clients -> [Jobs -> Stages \cup {None}]]
      <3>1. CASE Head(sending[c]).kind = "note"
        BY <1>16, <3>1 DEF Send, TypeOK
      <3>2. CASE Head(sending[c]).kind # "note"
        <4>1. shown' = [shown EXCEPT ![c][Head(sending[c]).job] = Head(sending[c]).stage]
          BY <1>16, <3>2 DEF Send, Show
        <4>2. Head(sending[c]).job \in Jobs /\ Head(sending[c]).stage \in Stages \cup {None}
          BY <2>1 DEF Frames
        <4> QED BY <4>1, <4>2 DEF TypeOK
      <3> QED BY <3>1, <3>2
    <2>3. <<>> \in Seq(Frames) /\ Len(<<>>) = 0
      OBVIOUS
    <2>4. /\ sending' \in [Clients -> Seq(Frames)]
          /\ \A d \in Clients : Len(sending'[d]) <= 1
      BY <1>16, <2>3 DEF TypeOK, Send
    <2> QED BY <1>16, <2>2, <2>4 DEF TypeOK, Send, jobsTable, hub, bounds
  <1>17. ASSUME Restart PROVE TypeOK'
    <2>1. NoStages \in [Jobs -> Stages \cup {None}] /\ Idle \in Replays
      BY DEF NoStages, Replays
    <2>2. <<>> \in Seq(Frames) /\ Len(<<>>) = 0
      OBVIOUS
    <2>3. row' \in [Jobs -> Stages \cup {None}]
      BY <1>0, <1>17 DEF Restart, TypeOK
    <2> QED BY <1>17, <2>1, <2>2, <2>3, BoundsAssumption DEF TypeOK, Restart
  <1>18. CASE UNCHANGED vars
    BY <1>18 DEF TypeOK, vars
  <1> QED
    BY <1>1, <1>2, <1>3, <1>4, <1>5, <1>6, <1>7, <1>8, <1>9, <1>10, <1>11, <1>12, <1>13,
       <1>14, <1>15, <1>16, <1>17, <1>18 DEF Next, Feed

\* Every variable stays in its type; in particular no queue outgrows its bound.
THEOREM FeedTypes == Spec => []TypeOK
  BY InitTyped, NextTyped, PTL DEF Spec

-----------------------------------------------------------------------------
(* The end of a job reaches the clients of its feed *)

\* The wires of a job's feed carry that job only, nothing is in the pump's hand
\* before the replay is out, and a replay that is still to read the table has no
\* stage yet.  A closed socket has nothing on its wires.
Wire(c) ==
  /\ topic[c] = "closed" => /\ queue[c] = <<>> /\ sending[c] = <<>> /\ replay[c] = Idle
  /\ topic[c] # All =>
       /\ filter[c] = All
       /\ replay[c] # Idle => replay[c].job = topic[c] /\ sending[c] = <<>>
       /\ \A i \in 1..Len(queue[c]) : queue[c][i].job = topic[c]
       /\ \A i \in 1..Len(sending[c]) : sending[c][i].job = topic[c]
  /\ replay[c].state = "read" => replay[c].stage = None

\* A job whose end the hub knows has no heartbeat, running or cached.
Still(j) == latest[j] = End => j \notin beating /\ beat[j] = None

IsEnd(f)    == f.kind # "note" /\ f.stage = End
OnlyNotes(s) == \A i \in 1..Len(s) : s[i].kind = "note"

\* The end lies in the queue, with notes alone behind it, and there are fewer
\* of those than a queue holds frames.
Queued(c, j) ==
  \E i \in 1..Len(queue[c]) :
    /\ IsEnd(queue[c][i])
    /\ Len(queue[c]) - i <= notes[j]
    /\ \A k \in i + 1 .. Len(queue[c]) : queue[c][k].kind = "note"

\* Where the end of j is on its way to c: in the queue, in the pump's hand, in
\* the replay, or already shown.
OnItsWay(c, j) ==
  \/ Queued(c, j)
  \/ /\ OnlyNotes(queue[c])
     /\ \/ sending[c] # <<>> /\ IsEnd(sending[c][1])
        \/ OnlyNotes(sending[c]) /\ replay[c] # Idle /\ replay[c].stage = End
        \/ OnlyNotes(sending[c]) /\ replay[c] = Idle /\ shown[c][j] = End

Delivered ==
  /\ \A c \in Clients : Wire(c)
  /\ \A j \in Jobs : Still(j)
  /\ \A c \in Clients, j \in Jobs : topic[c] = j /\ latest[j] = End => OnItsWay(c, j)

\* Where the elements of a concatenation come from.
LEMMA ConcatIndices ==
  ASSUME NEW S, NEW s \in Seq(S), NEW t \in Seq(S)
  PROVE  /\ Len(s) \in Nat /\ Len(t) \in Nat
         /\ Len(s \o t) = Len(s) + Len(t)
         /\ \A i \in 1..Len(s) : i \in 1..Len(s \o t) /\ (s \o t)[i] = s[i]
         /\ \A i \in 1..Len(t) : /\ Len(s) + i \in 1..Len(s \o t)
                                 /\ (s \o t)[Len(s) + i] = t[i]
         /\ \A i \in 1..Len(s \o t) : i \notin 1..Len(s) =>
              /\ i > Len(s) /\ i - Len(s) \in 1..Len(t)
              /\ (s \o t)[i] = t[i - Len(s)]
  <1>1. Len(s) \in Nat /\ Len(t) \in Nat
    BY LenProperties
  <1>2. /\ Len(s \o t) = Len(s) + Len(t)
        /\ \A i \in 1 .. Len(s) + Len(t) :
             (s \o t)[i] = IF i <= Len(s) THEN s[i] ELSE t[i - Len(s)]
    BY ConcatProperties
  <1> DEFINE m == Len(s) n == Len(t) p == s \o t l == Len(p)
  <1>3. m \in Nat /\ n \in Nat /\ l = m + n
        /\ \A i \in 1 .. m + n : p[i] = IF i <= m THEN s[i] ELSE t[i - m]
    BY <1>1, <1>2
  <1> HIDE DEF m, n, l, p
  <1>4. \A i \in 1..m : i \in 1..l /\ p[i] = s[i]
    BY <1>3
  <1>5. \A i \in 1..n : m + i \in 1..l /\ p[m + i] = t[i]
    <2> TAKE i \in 1..n
    <2>1. m + i \in 1..m + n /\ ~(m + i <= m) /\ (m + i) - m = i
      BY <1>3
    <2> QED BY <1>3, <2>1
  <1>6. \A i \in 1..l : i \notin 1..m => i > m /\ i - m \in 1..n /\ p[i] = t[i - m]
    BY <1>3
  <1> USE DEF m, n, l, p
  <1> QED BY <1>1, <1>2, <1>4, <1>5, <1>6

\* A pipe is the pump's hand and then the queue.
LEMMA PipeIndices ==
  ASSUME TypeOK, NEW c \in Clients
  PROVE  /\ Len(queue[c]) \in Nat /\ Len(sending[c]) \in Nat
         /\ sending[c] # <<>> => Len(sending[c]) = 1
         /\ Len(Pipe(c)) = Len(sending[c]) + Len(queue[c])
         /\ \A i \in 1..Len(sending[c]) :
              i \in 1..Len(Pipe(c)) /\ Pipe(c)[i] = sending[c][i]
         /\ \A i \in 1..Len(queue[c]) :
              /\ Len(sending[c]) + i \in 1..Len(Pipe(c))
              /\ Pipe(c)[Len(sending[c]) + i] = queue[c][i]
         /\ \A i \in 1..Len(Pipe(c)) : i \notin 1..Len(sending[c]) =>
              /\ i > Len(sending[c])
              /\ i - Len(sending[c]) \in 1..Len(queue[c])
              /\ Pipe(c)[i] = queue[c][i - Len(sending[c])]
  <1> DEFINE s == sending[c] q == queue[c]
  <1>1. s \in Seq(Frames) /\ q \in Seq(Frames) /\ Len(s) <= 1
    BY DEF TypeOK
  <1>2. Pipe(c) = s \o q
    BY DEF Pipe
  <1> HIDE DEF s, q
  <1>3. s # <<>> => Len(s) \in Nat \ {0}
    BY <1>1, EmptySeq
  <1>4. ASSUME s # <<>> PROVE Len(s) = 1
    <2> DEFINE n == Len(s)
    <2>1. n \in Nat \ {0} /\ n <= 1
      BY <1>1, <1>3, <1>4
    <2> HIDE DEF n
    <2>2. n = 1
      BY <2>1
    <2> QED BY <2>2 DEF n
  <1>5. /\ Len(s) \in Nat /\ Len(q) \in Nat
        /\ Len(s \o q) = Len(s) + Len(q)
        /\ \A i \in 1..Len(s) : i \in 1..Len(s \o q) /\ (s \o q)[i] = s[i]
        /\ \A i \in 1..Len(q) : /\ Len(s) + i \in 1..Len(s \o q)
                                /\ (s \o q)[Len(s) + i] = q[i]
        /\ \A i \in 1..Len(s \o q) : i \notin 1..Len(s) =>
             /\ i > Len(s) /\ i - Len(s) \in 1..Len(q)
             /\ (s \o q)[i] = q[i - Len(s)]
    BY <1>1, ConcatIndices
  <1> DEFINE p == s \o q
  <1>6. /\ Len(s) \in Nat /\ Len(q) \in Nat
        /\ Len(p) = Len(s) + Len(q)
        /\ \A i \in 1..Len(s) : i \in 1..Len(p) /\ p[i] = s[i]
        /\ \A i \in 1..Len(q) : /\ Len(s) + i \in 1..Len(p)
                                /\ p[Len(s) + i] = q[i]
        /\ \A i \in 1..Len(p) : i \notin 1..Len(s) =>
             i > Len(s) /\ i - Len(s) \in 1..Len(q) /\ p[i] = q[i - Len(s)]
    BY <1>5
  <1> HIDE DEF p
  <1>7. p = Pipe(c)
    BY <1>2 DEF p
  <1> QED BY <1>4, <1>6, <1>7, Zenon DEF s, q

\* What is on its way will be shown.
LEMMA OnItsWayIsShown ==
  ASSUME TypeOK, NEW c \in Clients, NEW j \in Jobs, topic[c] = j, Wire(c), OnItsWay(c, j)
  PROVE  WillShow(c, j, End)
  <1>0. /\ Len(queue[c]) \in Nat /\ Len(sending[c]) \in Nat
        /\ sending[c] # <<>> => Len(sending[c]) = 1
        /\ Len(Pipe(c)) = Len(sending[c]) + Len(queue[c])
    BY PipeIndices
  <1>1. \A i \in 1..Len(queue[c]) :
          /\ Len(sending[c]) + i \in 1..Len(Pipe(c))
          /\ Pipe(c)[Len(sending[c]) + i] = queue[c][i]
    BY PipeIndices
  <1>2. \A i \in 1..Len(sending[c]) : i \in 1..Len(Pipe(c)) /\ Pipe(c)[i] = sending[c][i]
    BY PipeIndices
  <1>3. \A i \in 1..Len(Pipe(c)) : i \notin 1..Len(sending[c]) =>
          /\ i > Len(sending[c])
          /\ i - Len(sending[c]) \in 1..Len(queue[c])
          /\ Pipe(c)[i] = queue[c][i - Len(sending[c])]
    BY PipeIndices
  <1>4. topic[c] # All
    BY NamesAssumption
  <1>5. \A i \in 1..Len(queue[c]) : queue[c][i].job = j
    BY <1>4 DEF Wire
  <1>6. \A i \in 1..Len(sending[c]) : sending[c][i].job = j
    BY <1>4 DEF Wire
  <1>7. CASE Queued(c, j)
    <2>1. PICK i \in 1..Len(queue[c]) :
            /\ IsEnd(queue[c][i])
            /\ \A k \in i + 1 .. Len(queue[c]) : queue[c][k].kind = "note"
      BY <1>7 DEF Queued
    <2> DEFINE p == Len(sending[c]) + i
    <2>2. p \in 1..Len(Pipe(c)) /\ Pipe(c)[p] = queue[c][i]
      BY <1>0, <1>1
    <2>3. p \in Coming(c, j) /\ Pipe(c)[p].stage = End
      BY <2>1, <2>2, <1>5 DEF Coming, IsEnd
    <2>4. \A k \in Coming(c, j) : k <= p
      <3> SUFFICES ASSUME NEW k \in Coming(c, j), ~(k <= p) PROVE FALSE
        OBVIOUS
      <3>1. k \in 1..Len(Pipe(c)) /\ Pipe(c)[k].kind # "note"
        BY DEF Coming
      <3>2. k \notin 1..Len(sending[c]) /\ k - Len(sending[c]) \in i + 1 .. Len(queue[c])
        <4> DEFINE m == Len(sending[c]) n == Len(queue[c]) l == Len(Pipe(c))
        <4>1. m \in Nat /\ n \in Nat /\ l = m + n /\ k \in 1..l /\ ~(k <= m + i)
          BY <1>0, <3>1
        <4> HIDE DEF m, n, l
        <4>2. k \notin 1..m /\ k - m \in i + 1 .. n
          BY <4>1
        <4> QED BY <4>2 DEF m, n
      <3> QED BY <1>3, <2>1, <3>1, <3>2
    <2> HIDE DEF p
    <2> QED BY <2>3, <2>4 DEF WillShow
  <1>8. CASE OnlyNotes(queue[c])
    <2>1. \A k \in Coming(c, j) : k \in 1..Len(sending[c])
      <3> SUFFICES ASSUME NEW k \in Coming(c, j), k \notin 1..Len(sending[c]) PROVE FALSE
        OBVIOUS
      <3>1. k \in 1..Len(Pipe(c)) /\ Pipe(c)[k].kind # "note"
        BY DEF Coming
      <3> QED BY <1>3, <1>8, <3>1 DEF OnlyNotes
    <2>2. CASE sending[c] # <<>> /\ IsEnd(sending[c][1])
      <3>1. Len(sending[c]) = 1
        BY <1>0, <2>2
      <3>2. 1 \in Coming(c, j) /\ Pipe(c)[1].stage = End
        BY <1>0, <1>2, <1>6, <2>2, <3>1 DEF Coming, IsEnd
      <3>3. \A k \in Coming(c, j) : k <= 1
        BY <2>1, <3>1
      <3> QED BY <3>2, <3>3 DEF WillShow
    <2>3. CASE OnlyNotes(sending[c]) /\ ~(sending[c] # <<>> /\ IsEnd(sending[c][1]))
      <3>1. Coming(c, j) = {}
        BY <1>2, <2>1, <2>3 DEF Coming, OnlyNotes
      <3>2. ~Queued(c, j)
        BY <1>8 DEF Queued, OnlyNotes, IsEnd
      <3> QED BY <2>3, <3>1, <3>2 DEF WillShow, OnItsWay
    <2> QED BY <1>8, <2>2, <2>3 DEF OnItsWay, Queued, OnlyNotes, IsEnd
  <1> QED BY <1>7, <1>8 DEF OnItsWay

\* Delivered is strong enough.
LEMMA DeliveredIsSeen == TypeOK /\ Delivered => JobFeedSeesEnd
  BY OnItsWayIsShown DEF Delivered, JobFeedSeesEnd

\* What a push leaves in a queue: all, or all but the oldest, and then the frame.
LEMMA PushShape ==
  ASSUME NEW q \in Seq(Frames), NEW f \in Frames, Len(q) <= QueueMax
  PROVE  \E d \in {0, 1} :
           /\ d = 1 => Len(q) = QueueMax
           /\ Len(Push(q, f)) = Len(q) + 1 - d
           /\ Push(q, f)[Len(q) + 1 - d] = f
           /\ \A i \in 1 .. Len(q) - d : Push(q, f)[i] = q[i + d]
  <1>0. Len(q) \in Nat
    BY LenProperties
  <1>1. CASE Len(q) < QueueMax
    <2>1. Push(q, f) = Append(q, f)
      BY <1>1 DEF Push
    <2>2. /\ Len(Push(q, f)) = Len(q) + 1 /\ Push(q, f)[Len(q) + 1] = f
          /\ \A i \in 1..Len(q) : Push(q, f)[i] = q[i]
      BY <2>1, AppendProperties
    <2>3. Len(q) + 1 - 0 = Len(q) + 1 /\ Len(q) - 0 = Len(q)
      BY <1>0
    <2>4. \A i \in 1..Len(q) : i + 0 = i
      BY <1>0
    <2> QED BY <2>2, <2>3, <2>4
  <1>2. CASE ~(Len(q) < QueueMax)
    <2>1. Len(q) = QueueMax /\ q # <<>>
      BY <1>0, <1>2, BoundsAssumption, EmptySeq
    <2> DEFINE t == Tail(q)
    <2>2. /\ t \in Seq(Frames) /\ Len(t) = Len(q) - 1
          /\ \A i \in 1..Len(t) : t[i] = q[i + 1]
      BY <2>1, HeadTailProperties
    <2>3. Push(q, f) = Append(t, f)
      BY <1>2 DEF Push
    <2> HIDE DEF t
    <2>4. /\ Len(Push(q, f)) = Len(t) + 1 /\ Push(q, f)[Len(t) + 1] = f
          /\ \A i \in 1..Len(t) : Push(q, f)[i] = t[i]
      BY <2>2, <2>3, AppendProperties
    <2>5. Len(t) + 1 = Len(q) + 1 - 1 /\ Len(q) - 1 = Len(t)
      BY <1>0, <2>2
    <2> QED BY <2>1, <2>2, <2>4, <2>5
  <1> QED BY <1>1, <1>2

\* A frame of its own job keeps the queue of a feed to that job.
LEMMA PushKeepsJob ==
  ASSUME NEW q \in Seq(Frames), NEW f \in Frames, Len(q) <= QueueMax,
         \A i \in 1..Len(q) : q[i].job = f.job
  PROVE  \A i \in 1..Len(Push(q, f)) : Push(q, f)[i].job = f.job
  <1>0. Len(q) \in Nat
    BY LenProperties
  <1>1. PICK d \in {0, 1} :
          /\ Len(Push(q, f)) = Len(q) + 1 - d
          /\ Push(q, f)[Len(q) + 1 - d] = f
          /\ \A i \in 1 .. Len(q) - d : Push(q, f)[i] = q[i + d]
    BY PushShape
  <1> DEFINE n == Len(q) p == Push(q, f) l == Len(p)
  <1>2. /\ n \in Nat /\ l = n + 1 - d /\ p[l] = f
        /\ \A i \in 1 .. n - d : p[i] = q[i + d]
        /\ \A i \in 1..n : q[i].job = f.job
    BY <1>0, <1>1
  <1> HIDE DEF n, p, l
  <1>3. \A i \in 1..l : p[i].job = f.job
    <2> TAKE i \in 1..l
    <2>1. CASE i = l
      BY <1>2, <2>1
    <2>2. CASE i # l
      <3>1. i \in 1 .. n - d /\ i + d \in 1..n
        BY <1>2, <2>2
      <3> QED BY <1>2, <3>1
    <2> QED BY <2>1, <2>2
  <1> QED BY <1>3 DEF l, p

\* An end in the queue stays there when a note is pushed behind it, although
\* the oldest frame may have to go.
LEMMA PushKeepsEnd ==
  ASSUME NEW q \in Seq(Frames), NEW f \in Frames, Len(q) <= QueueMax, f.kind = "note",
         NEW b \in Nat, b < NotesPerJob,
         NEW e \in 1..Len(q), IsEnd(q[e]), Len(q) - e <= b,
         \A k \in e + 1 .. Len(q) : q[k].kind = "note"
  PROVE  \E i \in 1..Len(Push(q, f)) :
           /\ IsEnd(Push(q, f)[i])
           /\ Len(Push(q, f)) - i <= b + 1
           /\ \A k \in i + 1 .. Len(Push(q, f)) : Push(q, f)[k].kind = "note"
  <1>0. Len(q) \in Nat
    BY LenProperties
  <1>1. PICK d \in {0, 1} :
          /\ d = 1 => Len(q) = QueueMax
          /\ Len(Push(q, f)) = Len(q) + 1 - d
          /\ Push(q, f)[Len(q) + 1 - d] = f
          /\ \A i \in 1 .. Len(q) - d : Push(q, f)[i] = q[i + d]
    BY PushShape
  <1> DEFINE n == Len(q) p == Push(q, f) l == Len(p)
  <1>2. /\ n \in Nat /\ l = n + 1 - d /\ p[l] = f /\ (d = 1 => n = QueueMax)
        /\ \A i \in 1 .. n - d : p[i] = q[i + d]
        /\ e \in 1..n /\ n - e <= b
        /\ \A k \in e + 1 .. n : q[k].kind = "note"
    BY <1>0, <1>1
  <1> HIDE DEF n, p, l
  <1>3. e - d \in 1 .. n - d /\ e - d \in 1..l /\ (e - d) + d = e /\ l - (e - d) <= b + 1
    <2>1. CASE d = 0
      BY <1>2, <2>1
    <2>2. CASE d = 1
      <3>1. n = QueueMax /\ QueueMax \in Nat /\ NotesPerJob \in Nat /\ NotesPerJob < QueueMax
        BY <1>2, <2>2, BoundsAssumption
      <3>2. n - e <= n - 2
        BY <1>2, <3>1
      <3>3. e >= 2
        BY <1>2, <3>2
      <3> QED BY <1>2, <2>2, <3>3
    <2> QED BY <2>1, <2>2
  <1>4. p[e - d] = q[e]
    BY <1>2, <1>3
  <1>5. \A k \in (e - d) + 1 .. l : p[k].kind = "note"
    <2> TAKE k \in (e - d) + 1 .. l
    <2>1. CASE k = l
      BY <1>2, <2>1
    <2>2. CASE k # l
      <3>1. k \in 1 .. n - d /\ k + d \in e + 1 .. n
        BY <1>2, <2>2
      <3> QED BY <1>2, <3>1
    <2> QED BY <2>1, <2>2
  <1>6. \E i \in 1..l : IsEnd(p[i]) /\ l - i <= b + 1 /\ \A k \in i + 1 .. l : p[k].kind = "note"
    BY <1>3, <1>4, <1>5
  <1> QED BY <1>6 DEF l, p

\* Notes stay notes when one more is pushed.
LEMMA PushKeepsNotes ==
  ASSUME NEW q \in Seq(Frames), NEW f \in Frames, Len(q) <= QueueMax, f.kind = "note",
         OnlyNotes(q)
  PROVE  OnlyNotes(Push(q, f))
  <1>0. Len(q) \in Nat
    BY LenProperties
  <1>1. PICK d \in {0, 1} :
          /\ Len(Push(q, f)) = Len(q) + 1 - d
          /\ Push(q, f)[Len(q) + 1 - d] = f
          /\ \A i \in 1 .. Len(q) - d : Push(q, f)[i] = q[i + d]
    BY PushShape
  <1> DEFINE n == Len(q) p == Push(q, f) l == Len(p)
  <1>2. /\ n \in Nat /\ l = n + 1 - d /\ p[l] = f
        /\ \A i \in 1 .. n - d : p[i] = q[i + d]
        /\ \A i \in 1..n : q[i].kind = "note"
    BY <1>0, <1>1 DEF OnlyNotes
  <1> HIDE DEF n, p, l
  <1>3. \A i \in 1..l : p[i].kind = "note"
    <2> TAKE i \in 1..l
    <2>1. CASE i = l
      BY <1>2, <2>1
    <2>2. CASE i # l
      <3>1. i \in 1 .. n - d /\ i + d \in 1..n
        BY <1>2, <2>2
      <3> QED BY <1>2, <3>1
    <2> QED BY <2>1, <2>2
  <1> QED BY <1>3 DEF l, p, OnlyNotes

\* A fan-out keeps every wire.
LEMMA FanoutWire ==
  ASSUME TypeOK, NEW d \in Clients, Wire(d), NEW f \in Frames, Fanout(f),
         UNCHANGED <<topic, filter, sending, replay>>
  PROVE  Wire(d)'
  <1>1. f.job \in Jobs /\ f.job # All /\ f.job # "closed"
    BY NamesAssumption DEF Frames
  <1>2. CASE topic[d] \in {f.job, All}
    <2>1. queue'[d] = Push(queue[d], f)
      BY <1>2 DEF Fanout
    <2>2. ASSUME topic[d] # All
          PROVE  \A i \in 1..Len(queue'[d]) : queue'[d][i].job = topic[d]
      <3>1. topic[d] = f.job /\ queue[d] \in Seq(Frames) /\ Len(queue[d]) <= QueueMax
        BY <1>2, <2>2 DEF TypeOK
      <3>2. \A i \in 1..Len(queue[d]) : queue[d][i].job = f.job
        BY <2>2, <3>1 DEF Wire
      <3> QED BY <2>1, <3>1, <3>2, PushKeepsJob
    <2>3. topic[d] # "closed"
      BY <1>1, <1>2, NamesAssumption
    <2> QED BY <2>2, <2>3 DEF Wire
  <1>3. CASE topic[d] \notin {f.job, All}
    <2>1. queue'[d] = queue[d]
      BY <1>3 DEF Fanout
    <2> QED BY <2>1 DEF Wire
  <1> QED BY <1>2, <1>3

\* A disconnect leaves nothing on the wires.
LEMMA HangupWire ==
  ASSUME TypeOK, NEW c \in Clients, NEW d \in Clients, Wire(d), Hangup(c)
  PROVE  Wire(d)'
  <1>1. CASE c = d
    <2>1. /\ topic'[d] = "closed" /\ filter'[d] = All
          /\ queue'[d] = <<>> /\ sending'[d] = <<>> /\ replay'[d] = Idle
      BY <1>1 DEF Hangup, TypeOK
    <2>2. Len(<<>>) = 0 /\ Idle.state # "read"
      BY DEF Idle
    <2> QED BY <2>1, <2>2 DEF Wire
  <1>2. CASE c # d
    <2>1. /\ topic'[d] = topic[d] /\ filter'[d] = filter[d] /\ queue'[d] = queue[d]
          /\ sending'[d] = sending[d] /\ replay'[d] = replay[d]
      BY <1>2 DEF Hangup, TypeOK
    <2> QED BY <2>1 DEF Wire
  <1> QED BY <1>1, <1>2

\* The wires of a client that a step does not touch.
LEMMA SameWire ==
  ASSUME NEW d \in Clients, Wire(d),
         topic'[d] = topic[d], filter'[d] = filter[d], queue'[d] = queue[d],
         sending'[d] = sending[d], replay'[d] = replay[d]
  PROVE  Wire(d)'
  BY DEF Wire

\* Every step keeps the wires of every client.
LEMMA NextWires ==
  TypeOK /\ (\A d \in Clients : Wire(d)) /\ [Next]_vars => (\A d \in Clients : Wire(d))'
  <1> SUFFICES ASSUME TypeOK, \A d \in Clients : Wire(d), [Next]_vars, NEW d \in Clients
               PROVE  Wire(d)'
    OBVIOUS
  <1>0. Wire(d)
    OBVIOUS
  <1>1. ASSUME NEW j \in Jobs, Commit(j) \/ Finalize(j) \/ Cancel(j) \/ DeleteRow(j) \/ Forget(j)
        PROVE  Wire(d)'
    BY <1>0, <1>1, SameWire DEF Commit, Finalize, Cancel, DeleteRow, Forget, sockets
  <1>2. ASSUME NEW j \in Jobs, Publish(j) PROVE Wire(d)'
    <2>1. Frame(j, "stage", unsaid[j]) \in Frames
      BY <1>2, FrameTyped DEF TypeOK
    <2> QED BY <1>0, <1>2, <2>1, FanoutWire DEF Publish
  <1>3. ASSUME NEW j \in Jobs, Note(j) PROVE Wire(d)'
    BY <1>0, <1>3, FrameTyped, FanoutWire DEF Note
  <1>4. ASSUME NEW j \in Jobs, Heartbeat(j) PROVE Wire(d)'
    <2>1. Frame(j, "beat", latest[j]) \in Frames
      BY <1>4, FrameTyped DEF TypeOK
    <2> QED BY <1>0, <1>4, <2>1, FanoutWire DEF Heartbeat
  <1>5. ASSUME NEW c \in Clients, NEW t \in Jobs \cup {All}, Connect(c, t) PROVE Wire(d)'
    <2>1. CASE c = d
      <3>1. /\ topic'[d] = t /\ filter'[d] = All /\ queue'[d] = <<>>
            /\ sending'[d] = sending[d]
            /\ replay'[d] = IF t = All THEN Idle ELSE AskReplay(t)
        BY <1>5, <2>1 DEF Connect, TypeOK
      <3>2. sending[d] = <<>> /\ Len(<<>>) = 0
        BY <1>0, <1>5, <2>1 DEF Connect, Wire
      <3>3. t # "closed" /\ Idle.state # "read"
        BY NamesAssumption DEF Idle
      <3>4. AskReplay(t).job = t /\ (AskReplay(t).state = "read" => AskReplay(t).stage = None)
        BY DEF AskReplay
      <3> QED BY <3>1, <3>2, <3>3, <3>4 DEF Wire
    <2>2. CASE c # d
      BY <1>0, <1>5, <2>2, SameWire DEF Connect, TypeOK
    <2> QED BY <2>1, <2>2
  <1>6. ASSUME NEW c \in Clients, NEW j \in Jobs, Narrow(c, j) PROVE Wire(d)'
    <2>1. CASE c = d
      <3>1. topic[d] = All /\ replay'[d] = AskReplay(j) /\ UNCHANGED <<topic, queue, sending>>
        BY <1>6, <2>1 DEF Narrow, TypeOK
      <3>2. AskReplay(j).state = "read" => AskReplay(j).stage = None
        BY DEF AskReplay
      <3> QED BY <3>1, <3>2, NamesAssumption DEF Wire
    <2>2. CASE c # d
      BY <1>0, <1>6, <2>2, SameWire DEF Narrow, TypeOK
    <2> QED BY <2>1, <2>2
  <1>7. ASSUME NEW c \in Clients, Disconnect(c) PROVE Wire(d)'
    BY <1>0, <1>7, HangupWire DEF Disconnect
  <1>8. ASSUME NEW c \in Clients, ReadRow(c) PROVE Wire(d)'
    <2>1. CASE row[replay[c].job] # None
      <3>1. /\ replay' = [replay EXCEPT ![c].state = "stage", ![c].stage = row[replay[c].job]]
            /\ UNCHANGED <<topic, filter, queue, sending>>
        BY <1>8, <2>1 DEF ReadRow
      <3>2. CASE c # d
        BY <1>0, <3>1, <3>2, SameWire DEF TypeOK
      <3>3. CASE c = d
        <4>1. replay[d] \in [state : {"read", "stage", "beat"}, job : Jobs,
                             stage : Stages \cup {None}] /\ replay[d] # Idle
          BY <1>8, <3>3 DEF ReadRow, TypeOK, Replays, Idle
        <4>2. replay'[d].job = replay[d].job /\ replay'[d].state = "stage"
          BY <3>1, <3>3, <4>1 DEF TypeOK
        <4>3. topic[d] # All => replay'[d].job = topic[d] /\ sending[d] = <<>>
          BY <1>0, <4>1, <4>2 DEF Wire
        <4>4. topic[d] # "closed"
          BY <1>0, <4>1 DEF Wire
        <4> QED BY <1>0, <3>1, <4>2, <4>3, <4>4 DEF Wire
      <3> QED BY <3>2, <3>3
    <2>2. CASE row[replay[c].job] = None /\ topic[c] = All
      <3>1. replay' = [replay EXCEPT ![c] = Idle] /\ UNCHANGED <<topic, filter, queue, sending>>
        BY <1>8, <2>2 DEF ReadRow
      <3>2. replay'[d] = replay[d] \/ replay'[d] = Idle
        BY <3>1 DEF TypeOK
      <3>3. Idle.state # "read"
        BY DEF Idle
      <3> QED BY <1>0, <3>1, <3>2, <3>3 DEF Wire
    <2>3. CASE row[replay[c].job] = None /\ topic[c] # All
      BY <1>0, <1>8, <2>3, HangupWire DEF ReadRow
    <2> QED BY <2>1, <2>2, <2>3
  <1>9. ASSUME NEW c \in Clients, SendReplay(c) PROVE Wire(d)'
    <2>1. CASE c # d
      BY <1>0, <1>9, <2>1, SameWire DEF SendReplay, TypeOK
    <2>2. CASE c = d
      <3>1. /\ UNCHANGED <<topic, filter, queue, sending>> /\ sending[d] = <<>>
            /\ replay[d].state = "stage"
            /\ \/ replay'[d] = Idle
               \/ replay'[d].state = "beat" /\ replay'[d].job = replay[d].job
        BY <1>9, <2>2 DEF SendReplay, TypeOK
      <3>2. Idle.state # "read" /\ replay[d] # Idle
        BY <3>1 DEF Idle
      <3> QED BY <1>0, <3>1, <3>2 DEF Wire
    <2> QED BY <2>1, <2>2
  <1>10. ASSUME NEW c \in Clients, SendReplayBeat(c) PROVE Wire(d)'
    <2>1. /\ UNCHANGED <<topic, filter, queue, sending>>
          /\ replay'[d] = replay[d] \/ replay'[d] = Idle
      BY <1>10 DEF SendReplayBeat, TypeOK
    <2>2. Idle.state # "read"
      BY DEF Idle
    <2> QED BY <1>0, <2>1, <2>2 DEF Wire
  <1>11. ASSUME NEW c \in Clients, Take(c) PROVE Wire(d)'
    <2>1. CASE c # d
      BY <1>0, <1>11, <2>1, SameWire DEF Take, TypeOK
    <2>2. CASE c = d /\ topic[d] = All
      <3>1. UNCHANGED <<topic, replay>>
        BY <1>11 DEF Take
      <3> QED BY <1>0, <2>2, <3>1, NamesAssumption DEF Wire
    <2>3. CASE c = d /\ topic[d] # All
      <3>1. /\ UNCHANGED <<topic, filter, replay>> /\ replay[d] = Idle
            /\ queue[d] # <<>> /\ queue'[d] = Tail(queue[d])
            /\ queue[d] \in Seq(Frames)
            /\ sending'[d] \in {<<Head(queue[d])>>, <<>>}
        BY <1>11, <2>3 DEF Take, TypeOK
      <3>2. /\ \A i \in 1..Len(queue'[d]) : queue'[d][i] = queue[d][i + 1]
            /\ Len(queue'[d]) = Len(queue[d]) - 1 /\ Len(queue[d]) \in Nat \ {0}
        BY <3>1, HeadTailProperties, EmptySeq
      <3>3. \A i \in 1..Len(queue'[d]) : i + 1 \in 1..Len(queue[d])
        <4> DEFINE n == Len(queue[d]) m == Len(queue'[d])
        <4>1. m = n - 1 /\ n \in Nat
          BY <3>2
        <4> HIDE DEF n, m
        <4>2. \A i \in 1..m : i + 1 \in 1..n
          BY <4>1
        <4> QED BY <4>2 DEF n, m
      <3>4. Head(queue[d]) = queue[d][1] /\ 1 \in 1..Len(queue[d])
        BY <3>1, <3>2
      <3>5. \A i \in 1..Len(sending'[d]) : sending'[d][i].job = topic[d]
        BY <1>0, <2>3, <3>1, <3>4 DEF Wire
      <3>6. topic[d] # "closed"
        BY <1>0, <3>1 DEF Wire
      <3>7. \A i \in 1..Len(queue'[d]) : queue'[d][i].job = topic[d]
        BY <1>0, <2>3, <3>2, <3>3 DEF Wire
      <3>8. filter[d] = All /\ (replay[d].state = "read" => replay[d].stage = None)
        BY <1>0, <2>3 DEF Wire
      <3> QED BY <3>1, <3>5, <3>6, <3>7, <3>8 DEF Wire
    <2> QED BY <2>1, <2>2, <2>3
  <1>12. ASSUME NEW c \in Clients, Send(c) PROVE Wire(d)'
    <2>1. /\ UNCHANGED <<topic, filter, queue, replay>>
          /\ sending'[d] = sending[d] \/ sending'[d] = <<>>
      BY <1>12 DEF Send, TypeOK
    <2>2. Len(<<>>) = 0
      OBVIOUS
    <2> QED BY <1>0, <2>1, <2>2 DEF Wire
  <1>13. ASSUME Restart PROVE Wire(d)'
    <2>1. /\ topic'[d] = "closed" /\ filter'[d] = All
          /\ queue'[d] = <<>> /\ sending'[d] = <<>> /\ replay'[d] = Idle
      BY <1>13 DEF Restart
    <2>2. Len(<<>>) = 0 /\ Idle.state # "read"
      BY DEF Idle
    <2> QED BY <2>1, <2>2 DEF Wire
  <1>14. CASE UNCHANGED vars
    BY <1>0, <1>14, SameWire DEF vars
  <1> QED
    BY <1>1, <1>2, <1>3, <1>4, <1>5, <1>6, <1>7, <1>8, <1>9, <1>10, <1>11, <1>12, <1>13,
       <1>14 DEF Next, Feed

\* The end of a job stops its heartbeats.
LEMMA NextStill ==
  TypeOK /\ (\A j \in Jobs : Still(j)) /\ [Next]_vars => (\A j \in Jobs : Still(j))'
  <1> SUFFICES ASSUME TypeOK, \A j \in Jobs : Still(j), [Next]_vars, NEW i \in Jobs
               PROVE  Still(i)'
    OBVIOUS
  <1>0. Still(i) /\ End # None
    BY BoundsAssumption DEF None
  <1>1. ASSUME NEW j \in Jobs, Publish(j) PROVE Still(i)'
    BY <1>0, <1>1 DEF Publish, Still, TypeOK
  <1>2. ASSUME NEW j \in Jobs, Heartbeat(j) PROVE Still(i)'
    BY <1>0, <1>2 DEF Heartbeat, Still, TypeOK
  <1>3. ASSUME NEW j \in Jobs, Forget(j) PROVE Still(i)'
    BY <1>0, <1>3 DEF Forget, Still, TypeOK
  <1>4. CASE Restart
    BY <1>0, <1>4 DEF Restart, Still, NoStages
  <1>5. CASE UNCHANGED hub
    BY <1>0, <1>5 DEF Still, hub
  <1>6. ASSUME NEW j \in Jobs, Commit(j) \/ Finalize(j) \/ Cancel(j) \/ Note(j) \/ DeleteRow(j)
        PROVE  UNCHANGED hub
    BY <1>6 DEF Commit, Finalize, Cancel, Note, DeleteRow
  <1>7. ASSUME NEW c \in Clients,
               \/ \E t \in Jobs \cup {All} : Connect(c, t)
               \/ \E j \in Jobs : Narrow(c, j)
               \/ Disconnect(c) \/ Feed(c)
        PROVE  UNCHANGED hub
    BY <1>7 DEF Connect, Narrow, Disconnect, Feed, ReadRow, SendReplay, SendReplayBeat, Take, Send
  <1>8. CASE UNCHANGED vars
    BY <1>5, <1>8 DEF vars, hub
  <1> QED BY <1>1, <1>2, <1>3, <1>4, <1>5, <1>6, <1>7, <1>8 DEF Next

\* What a step does not touch stays on its way.
LEMMA SameWay ==
  ASSUME NEW c \in Clients, NEW j \in Jobs, OnItsWay(c, j),
         queue'[c] = queue[c], sending'[c] = sending[c], replay'[c] = replay[c],
         shown'[c][j] = shown[c][j], notes'[j] = notes[j]
  PROVE  OnItsWay(c, j)'
  BY DEF OnItsWay, Queued

\* A frame of another job does not reach the feed of j.
LEMMA OtherFanout ==
  ASSUME NEW c \in Clients, NEW j \in Jobs, topic[c] = j, NEW f \in Frames, f.job # j, Fanout(f)
  PROVE  queue'[c] = queue[c]
  BY NamesAssumption DEF Fanout

\* The end is on its way from the moment it is pushed.
LEMMA PushedEnd ==
  ASSUME TypeOK, NEW c \in Clients, NEW j \in Jobs, topic[c] = j,
         NEW f \in Frames, f.job = j, IsEnd(f), Fanout(f), notes' = notes
  PROVE  Queued(c, j)'
  <1>1. queue'[c] = Push(queue[c], f)
    BY DEF Fanout
  <1>2. /\ Push(queue[c], f) \in Seq(Frames) /\ Len(Push(queue[c], f)) >= 1
        /\ Push(queue[c], f)[Len(Push(queue[c], f))] = f
    BY PushTyped DEF TypeOK
  <1> DEFINE q == queue'[c] l == Len(q)
  <1>3. l \in Nat /\ l >= 1 /\ q[l] = f
    BY <1>1, <1>2, LenProperties
  <1>4. notes'[j] \in Nat
    BY BoundsAssumption DEF TypeOK
  <1> HIDE DEF l
  <1>5. l \in 1..l /\ l - l <= notes'[j] /\ \A k \in l + 1 .. l : q[k].kind = "note"
    BY <1>3, <1>4
  <1>6. \E i \in 1..l : /\ IsEnd(q[i]) /\ l - i <= notes'[j]
                        /\ \A k \in i + 1 .. l : q[k].kind = "note"
    BY <1>3, <1>5
  <1> QED BY <1>6 DEF l, Queued, IsEnd

\* A note behind the end keeps it on its way.
LEMMA NotedEnd ==
  ASSUME TypeOK, NEW c \in Clients, NEW j \in Jobs, topic[c] = j, OnItsWay(c, j), Note(j)
  PROVE  OnItsWay(c, j)'
  <1> DEFINE f == Frame(j, "note", None)
  <1>1. f \in Frames /\ f.kind = "note" /\ f.job = j
    BY FrameTyped DEF Frame
  <1>2. /\ queue'[c] = Push(queue[c], f) /\ queue[c] \in Seq(Frames) /\ Len(queue[c]) <= QueueMax
        /\ sending' = sending /\ replay' = replay /\ shown' = shown
        /\ notes[j] \in Nat /\ notes[j] < NotesPerJob /\ notes'[j] = notes[j] + 1
    BY BoundsAssumption DEF Note, Fanout, TypeOK, Frame
  <1> HIDE DEF f
  <1>3. CASE Queued(c, j)
    <2>1. PICK e \in 1..Len(queue[c]) :
            /\ IsEnd(queue[c][e])
            /\ Len(queue[c]) - e <= notes[j]
            /\ \A k \in e + 1 .. Len(queue[c]) : queue[c][k].kind = "note"
      BY <1>3 DEF Queued
    <2>2. \E i \in 1..Len(Push(queue[c], f)) :
            /\ IsEnd(Push(queue[c], f)[i])
            /\ Len(Push(queue[c], f)) - i <= notes[j] + 1
            /\ \A k \in i + 1 .. Len(Push(queue[c], f)) : Push(queue[c], f)[k].kind = "note"
      BY <1>1, <1>2, <2>1, PushKeepsEnd
    <2>3. Queued(c, j)'
      BY <1>2, <2>2 DEF Queued, IsEnd
    <2> QED BY <2>3 DEF OnItsWay
  <1>4. CASE OnlyNotes(queue[c])
    <2>1. OnlyNotes(queue'[c])
      BY <1>1, <1>2, <1>4, PushKeepsNotes
    <2>2. CASE Queued(c, j)
      BY <1>3, <2>2
    <2>3. CASE ~Queued(c, j)
      BY <1>2, <2>1, <2>3 DEF OnItsWay, OnlyNotes, IsEnd
    <2> QED BY <2>2, <2>3
  <1> QED BY <1>3, <1>4 DEF OnItsWay

\* The pump hands the end over, or comes nearer to it.
LEMMA TakenEnd ==
  ASSUME TypeOK, NEW c \in Clients, NEW j \in Jobs, Wire(c), topic[c] = j, OnItsWay(c, j), Take(c)
  PROVE  OnItsWay(c, j)'
  <1>1. /\ topic[c] # All
        /\ replay[c] = Idle /\ sending[c] = <<>> /\ filter[c] = All
        /\ queue[c] # <<>> /\ queue[c] \in Seq(Frames)
        /\ queue'[c] = Tail(queue[c]) /\ sending'[c] = <<Head(queue[c])>>
        /\ replay' = replay /\ shown' = shown /\ notes' = notes
    BY NamesAssumption DEF Take, Wire, TypeOK, bounds
  <1>2. /\ \A i \in 1..Len(queue'[c]) : queue'[c][i] = queue[c][i + 1]
        /\ Len(queue'[c]) = Len(queue[c]) - 1 /\ Len(queue[c]) \in Nat \ {0}
        /\ sending'[c][1] = queue[c][1] /\ sending'[c] # <<>> /\ Len(sending'[c]) = 1
    BY <1>1, HeadTailProperties, EmptySeq
  <1> DEFINE q == queue[c] n == Len(queue[c]) r == queue'[c] m == Len(queue'[c])
  <1>3. n \in Nat \ {0} /\ m = n - 1 /\ \A i \in 1..m : r[i] = q[i + 1]
    BY <1>2
  <1>4. CASE OnlyNotes(q)
    <2>1. \A i \in 1..n : q[i].kind = "note"
      BY <1>4 DEF OnlyNotes
    <2> HIDE DEF q, n, r, m
    <2>2. \A i \in 1..m : r[i].kind = "note"
      BY <1>3, <2>1
    <2>3. 1 \in 1..n
      BY <1>3
    <2>4. q[1].kind = "note"
      BY <2>1, <2>3
    <2> USE DEF q, n, r, m
    <2>5. OnlyNotes(queue'[c]) /\ OnlyNotes(sending'[c])
      BY <1>2, <2>2, <2>4 DEF OnlyNotes
    <2>6. CASE shown[c][j] = End
      BY <1>1, <2>5, <2>6 DEF OnItsWay
    <2>7. CASE Queued(c, j)
      <3>1. PICK e \in 1..n : IsEnd(q[e])
        BY <2>7 DEF Queued
      <3> QED BY <2>1, <3>1 DEF IsEnd
    <2> QED BY <1>1, <2>6, <2>7 DEF OnItsWay
  <1>5. CASE Queued(c, j)
    <2>1. PICK e \in 1..n : /\ IsEnd(q[e]) /\ n - e <= notes[j]
                            /\ \A k \in e + 1 .. n : q[k].kind = "note"
      BY <1>5 DEF Queued
    <2>2. notes[j] \in Nat
      BY BoundsAssumption DEF TypeOK
    <2>3. CASE e = 1
      <3> HIDE DEF q, n, r, m
      <3>1. \A i \in 1..m : r[i].kind = "note"
        BY <1>3, <2>1, <2>3
      <3> USE DEF q, n, r, m
      <3>2. OnlyNotes(queue'[c]) /\ IsEnd(sending'[c][1])
        BY <1>2, <2>1, <2>3, <3>1 DEF OnlyNotes, IsEnd
      <3> QED BY <1>2, <3>2 DEF OnItsWay, IsEnd
    <2>4. CASE e # 1
      <3> HIDE DEF q, n, r, m
      <3>1. e - 1 \in 1..m /\ m - (e - 1) <= notes[j] /\ (e - 1) + 1 = e
        BY <1>3, <2>1, <2>2, <2>4
      <3>2. \A k \in (e - 1) + 1 .. m : r[k].kind = "note"
        BY <1>3, <2>1, <2>4
      <3>3. \E i \in 1..m : /\ IsEnd(r[i]) /\ m - i <= notes[j]
                            /\ \A k \in i + 1 .. m : r[k].kind = "note"
        BY <1>3, <2>1, <3>1, <3>2
      <3> USE DEF q, n, r, m
      <3> QED BY <1>1, <3>3 DEF OnItsWay, Queued, IsEnd
    <2> QED BY <2>3, <2>4
  <1> QED BY <1>4, <1>5 DEF OnItsWay

\* A replay hands the end over; there is no heartbeat to follow it.
LEMMA ReplayedEnd ==
  ASSUME TypeOK, NEW c \in Clients, NEW j \in Jobs, Wire(c), Still(j),
         topic[c] = j, latest[j] = End, OnItsWay(c, j),
         SendReplay(c) \/ SendReplayBeat(c)
  PROVE  OnItsWay(c, j)'
  <1>1. /\ sending[c] = <<>> /\ replay[c] # Idle /\ replay[c].job = j
        /\ queue' = queue /\ sending' = sending /\ notes' = notes
        /\ shown'[c][j] = replay[c].stage
    BY NamesAssumption DEF SendReplay, SendReplayBeat, Show, Wire, TypeOK, Idle, bounds
  <1>2. replay'[c] = Idle
    BY <1>1 DEF SendReplay, SendReplayBeat, Still, TypeOK
  <1>3. CASE Queued(c, j)
    BY <1>1, <1>3 DEF OnItsWay, Queued
  <1>4. CASE ~Queued(c, j)
    <2>1. OnlyNotes(queue[c]) /\ OnlyNotes(sending[c]) /\ replay[c].stage = End
      BY <1>1, <1>4 DEF OnItsWay
    <2> QED BY <1>1, <1>2, <2>1 DEF OnItsWay, OnlyNotes
  <1> QED BY <1>3, <1>4

\* The pump sends the end, or a note that changes nothing.
LEMMA SentEnd ==
  ASSUME TypeOK, NEW c \in Clients, NEW j \in Jobs, Wire(c), topic[c] = j, OnItsWay(c, j), Send(c)
  PROVE  OnItsWay(c, j)'
  <1> DEFINE f == sending[c][1]
  <1>1. /\ sending[c] # <<>> /\ sending[c] \in Seq(Frames) /\ replay[c] = Idle
        /\ queue' = queue /\ replay' = replay /\ notes' = notes
        /\ sending'[c] = <<>>
    BY NamesAssumption DEF Send, Wire, TypeOK, bounds
  <1>2. 1 \in 1..Len(sending[c]) /\ Head(sending[c]) = f
    BY <1>1, EmptySeq
  <1>3. f.job = j
    BY <1>2, NamesAssumption DEF Wire
  <1>4. shown' = IF f.kind = "note" THEN shown ELSE [shown EXCEPT ![c][j] = f.stage]
    BY <1>2, <1>3 DEF Send, Show
  <1>5. OnlyNotes(sending'[c])
    BY <1>1 DEF OnlyNotes
  <1> HIDE DEF f
  <1>6. CASE Queued(c, j)
    BY <1>1, <1>6 DEF OnItsWay, Queued
  <1>7. CASE OnlyNotes(queue[c]) /\ IsEnd(f)
    <2>1. shown'[c][j] = End
      BY <1>4, <1>7 DEF IsEnd, TypeOK
    <2> QED BY <1>1, <1>5, <1>7, <2>1 DEF OnItsWay, OnlyNotes
  <1>8. CASE OnlyNotes(queue[c]) /\ OnlyNotes(sending[c]) /\ shown[c][j] = End
    <2>1. f.kind = "note"
      BY <1>2, <1>8 DEF OnlyNotes, f
    <2>2. shown'[c][j] = End
      BY <1>4, <1>8, <2>1
    <2> QED BY <1>1, <1>5, <1>8, <2>2 DEF OnItsWay, OnlyNotes
  <1> QED BY <1>1, <1>6, <1>7, <1>8 DEF OnItsWay, f

\* After any step, the end of a job that the hub knows is on its way to every
\* client of the job's feed.
LEMMA NextOnItsWay ==
  ASSUME TypeOK, Delivered, [Next]_vars,
         NEW c \in Clients, NEW j \in Jobs, topic'[c] = j, latest'[j] = End
  PROVE  OnItsWay(c, j)'
  <1>0. Wire(c) /\ Still(j) /\ (topic[c] = j /\ latest[j] = End => OnItsWay(c, j))
    BY DEF Delivered
  <1>00. j # All /\ j # "closed" /\ End # None
    BY NamesAssumption, BoundsAssumption DEF None
  <1>1. ASSUME NEW i \in Jobs, Commit(i) \/ Finalize(i) \/ Cancel(i) \/ DeleteRow(i)
        PROVE  OnItsWay(c, j)'
    BY <1>0, <1>1, SameWay DEF Commit, Finalize, Cancel, DeleteRow, hub, sockets, bounds
  <1>2. ASSUME NEW i \in Jobs, Forget(i) PROVE OnItsWay(c, j)'
    <2>1. latest[j] = End
      BY <1>00, <1>2 DEF Forget, TypeOK
    <2> QED BY <1>0, <1>2, <2>1, SameWay DEF Forget, sockets, bounds
  <1>3. ASSUME NEW i \in Jobs, Publish(i) PROVE OnItsWay(c, j)'
    <2> DEFINE f == Frame(i, "stage", unsaid[i])
    <2>1. f \in Frames /\ f.job = i /\ f.kind = "stage" /\ f.stage = unsaid[i]
      BY FrameTyped DEF TypeOK, Frame
    <2>2. Fanout(f) /\ topic[c] = j /\ notes' = notes
      BY <1>3 DEF Publish, bounds
    <2> HIDE DEF f
    <2>3. CASE i = j
      <3>1. unsaid[i] = End
        BY <1>3, <2>3 DEF Publish, TypeOK
      <3>2. Queued(c, j)'
        BY <2>1, <2>2, <2>3, <3>1, PushedEnd DEF IsEnd
      <3> QED BY <3>2 DEF OnItsWay
    <2>4. CASE i # j
      <3>1. queue'[c] = queue[c]
        BY <2>1, <2>2, <2>4, OtherFanout
      <3>2. latest[j] = End
        BY <1>3, <2>4 DEF Publish, TypeOK
      <3> QED BY <1>0, <1>3, <2>2, <3>1, <3>2, SameWay DEF Publish
    <2> QED BY <2>3, <2>4
  <1>4. ASSUME NEW i \in Jobs, Note(i) PROVE OnItsWay(c, j)'
    <2>1. topic[c] = j /\ latest[j] = End
      BY <1>4 DEF Note, hub
    <2>2. CASE i = j
      BY <1>0, <1>4, <2>1, <2>2, NotedEnd
    <2>3. CASE i # j
      <3>1. Frame(i, "note", None) \in Frames /\ Frame(i, "note", None).job = i
        BY FrameTyped DEF Frame
      <3>2. queue'[c] = queue[c]
        BY <1>4, <2>1, <2>3, <3>1, OtherFanout DEF Note
      <3>3. notes'[j] = notes[j]
        BY <1>4, <2>3 DEF Note, TypeOK
      <3> QED BY <1>0, <1>4, <2>1, <3>2, <3>3, SameWay DEF Note
    <2> QED BY <2>2, <2>3
  <1>5. ASSUME NEW i \in Jobs, Heartbeat(i) PROVE OnItsWay(c, j)'
    <2>1. topic[c] = j /\ latest[j] = End /\ i # j /\ notes' = notes
      BY <1>0, <1>5 DEF Heartbeat, Still
    <2>2. Frame(i, "beat", latest[i]) \in Frames /\ Frame(i, "beat", latest[i]).job = i
      BY FrameTyped DEF Frame, TypeOK
    <2>3. queue'[c] = queue[c]
      BY <1>5, <2>1, <2>2, OtherFanout DEF Heartbeat
    <2> QED BY <1>0, <1>5, <2>1, <2>3, SameWay DEF Heartbeat
  <1>6. ASSUME NEW d \in Clients, NEW t \in Jobs \cup {All}, Connect(d, t) PROVE OnItsWay(c, j)'
    <2>1. latest[j] = End /\ notes' = notes
      BY <1>6 DEF Connect, hub
    <2>2. CASE c = d
      <3>1. t = j /\ queue'[c] = <<>> /\ sending'[c] = <<>> /\ replay'[c] = AskReplay(j)
        BY <1>0, <1>00, <1>6, <2>2 DEF Connect, TypeOK, Wire
      <3>2. AskReplay(j) # Idle /\ AskReplay(j).stage = End
        BY <1>00, <2>1 DEF AskReplay, Idle
      <3> QED BY <3>1, <3>2 DEF OnItsWay, OnlyNotes
    <2>3. CASE c # d
      BY <1>0, <1>6, <2>1, <2>3, SameWay DEF Connect, TypeOK
    <2> QED BY <2>2, <2>3
  <1>7. ASSUME NEW d \in Clients, NEW i \in Jobs, Narrow(d, i) PROVE OnItsWay(c, j)'
    <2>1. topic[c] = j /\ latest[j] = End /\ c # d /\ notes' = notes
      BY <1>00, <1>7 DEF Narrow, hub, bounds
    <2> QED BY <1>0, <1>7, <2>1, SameWay DEF Narrow, TypeOK
  <1>8. ASSUME NEW d \in Clients, Hangup(d), UNCHANGED <<hub, bounds>> PROVE OnItsWay(c, j)'
    <2>1. c # d
      BY <1>00, <1>8 DEF Hangup, TypeOK
    <2>2. topic[c] = j /\ latest[j] = End
      BY <1>8, <2>1 DEF Hangup, TypeOK, hub
    <2> QED BY <1>0, <1>8, <2>1, <2>2, SameWay DEF Hangup, TypeOK, bounds
  <1>9. ASSUME NEW d \in Clients, ReadRow(d) PROVE OnItsWay(c, j)'
    <2>1. CASE row[replay[d].job] = None /\ topic[d] # All
      BY <1>8, <1>9, <2>1 DEF ReadRow
    <2>2. CASE ~(row[replay[d].job] = None /\ topic[d] # All)
      <3>1. /\ UNCHANGED <<topic, queue, sending, shown, latest, notes>>
            /\ \E r : replay' = [replay EXCEPT ![d] = r]
        BY <1>9, <2>2 DEF ReadRow, hub, bounds
      <3>2. topic[c] = j /\ latest[j] = End
        BY <3>1
      <3>3. CASE c # d
        BY <1>0, <3>1, <3>2, <3>3, SameWay DEF TypeOK
      <3>4. CASE c = d
        <4>1. replay[c] # Idle /\ replay[c].stage = None /\ sending[c] = <<>>
          BY <1>0, <1>00, <1>9, <3>2, <3>4 DEF ReadRow, Wire, Idle
        <4>2. Queued(c, j)
          BY <1>0, <1>00, <3>2, <4>1 DEF OnItsWay
        <4> QED BY <3>1, <4>2 DEF OnItsWay, Queued
      <3> QED BY <3>3, <3>4
    <2> QED BY <2>1, <2>2
  <1>10. ASSUME NEW d \in Clients, SendReplay(d) \/ SendReplayBeat(d) \/ Take(d) \/ Send(d)
         PROVE  OnItsWay(c, j)'
    <2>1. topic[c] = j /\ latest[j] = End /\ notes' = notes
      BY <1>10 DEF SendReplay, SendReplayBeat, Take, Send, hub, bounds
    <2>2. CASE c = d
      BY <1>0, <1>10, <2>1, <2>2, ReplayedEnd, TakenEnd, SentEnd
    <2>3. CASE c # d
      <3>1. /\ queue'[c] = queue[c] /\ sending'[c] = sending[c] /\ replay'[c] = replay[c]
            /\ shown'[c][j] = shown[c][j]
        BY <1>10, <2>3 DEF SendReplay, SendReplayBeat, Take, Send, Show, TypeOK
      <3> QED BY <1>0, <2>1, <3>1, SameWay
    <2> QED BY <2>2, <2>3
  <1>11. CASE Restart
    BY <1>00, <1>11 DEF Restart, NoStages
  <1>12. CASE UNCHANGED vars
    BY <1>0, <1>12, SameWay DEF vars
  <1>13. ASSUME NEW d \in Clients, Disconnect(d) PROVE OnItsWay(c, j)'
    BY <1>8, <1>13 DEF Disconnect
  <1> QED
    BY <1>1, <1>2, <1>3, <1>4, <1>5, <1>6, <1>7, <1>9, <1>10, <1>11, <1>12, <1>13
       DEF Next, Feed

\* At the start nobody is connected and no job has ended.
LEMMA InitDelivered == Init => Delivered
  <1> SUFFICES ASSUME Init PROVE Delivered
    OBVIOUS
  <1>1. None # End /\ "closed" # All /\ Len(<<>>) = 0 /\ Idle.state # "read"
    BY NamesAssumption, BoundsAssumption DEF None, Idle
  <1>2. \A c \in Clients : Wire(c)
    BY <1>1 DEF Init, Wire
  <1>3. \A j \in Jobs : Still(j) /\ latest[j] # End
    BY <1>1 DEF Init, Still, NoStages
  <1> QED BY <1>2, <1>3 DEF Delivered

\* Delivered is inductive, given the types.
LEMMA NextDelivered == TypeOK /\ Delivered /\ [Next]_vars => Delivered'
  <1> SUFFICES ASSUME TypeOK, Delivered, [Next]_vars PROVE Delivered'
    OBVIOUS
  <1>1. (\A c \in Clients : Wire(c))' /\ (\A j \in Jobs : Still(j))'
    BY NextWires, NextStill DEF Delivered
  <1>2. \A c \in Clients, j \in Jobs :
          topic'[c] = j /\ latest'[j] = End => OnItsWay(c, j)'
    BY NextOnItsWay
  <1> QED BY <1>1, <1>2 DEF Delivered

\* Once the hub knows that a job has ended, no full queue, replay or heartbeat
\* keeps that from a client of the job's feed or overtakes it, whatever the
\* numbers of jobs, clients and connections: api/ws.py's pump and replay and
\* ProgressHub._push_or_drop lose frames, never this one.
THEOREM EndReachesFeed == Spec => []JobFeedSeesEnd
  <1>1. TypeOK /\ Delivered => JobFeedSeesEnd
    BY DeliveredIsSeen
  <1> QED BY <1>1, InitTyped, NextTyped, InitDelivered, NextDelivered, PTL DEF Spec
=============================================================================
