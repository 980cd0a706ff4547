--------------------------- MODULE GpuSpend_proofs ---------------------------
(* Proofs about GpuSpend, for every number of songs and every limit. *)
EXTENDS GpuSpend, TLAPS

USE SongsAssumption, LimitsAssumption

\* Unfolds the abbreviations for groups of variables.
USE DEF vars, window, budget, ghosts

-----------------------------------------------------------------------------
(* Types *)

\* The initial state is well typed.
LEMMA InitTyped == Init => TypeOK
  BY DEF Init, TypeOK, Outcomes, Busy, RunEnds, Live, Polling

\* Leaving the loop is well typed.
LEMMA AbandonTyped ==
  ASSUME TypeOK, NEW c \in Songs, NEW how \in Outcomes, Abandon(c, how)
  PROVE  TypeOK'
  BY DEF TypeOK, Abandon, Exit, Outcomes, Busy, RunEnds, Live, Polling

\* Every step keeps the types; a try is charged only while one is left.
LEMMA NextTyped == TypeOK /\ [Next]_vars => TypeOK'
  <1> SUFFICES ASSUME TypeOK, [Next]_vars PROVE TypeOK'
    OBVIOUS
  <1> USE DEF TypeOK, Outcomes, Busy, RunEnds, Live, Polling
  <1>1. ASSUME NEW c \in Songs, Caller(c) PROVE TypeOK'
    <2>1. CASE ReadPrior(c) BY <2>1 DEF ReadPrior
    <2>2. CASE SubmitAgain(c) BY <2>2 DEF SubmitAgain, MayRetry, Charge
    <2>3. CASE GiveUp(c) BY <2>3 DEF GiveUp, FinishUnpaid, Finish
    <2>4. CASE Realign(c) BY <2>4 DEF Realign
    <2>5. CASE Record(c) BY <2>5 DEF Record, Finish
    <2>6. CASE Drop(c) BY <2>6 DEF Drop, FinishUnpaid, Finish
    <2> QED BY <1>1, <2>1, <2>2, <2>3, <2>4, <2>5, <2>6 DEF Caller
  <1>2. ASSUME NEW c \in Songs, Client(c) PROVE TypeOK'
    <2>1. CASE Enter(c) BY <2>1 DEF Enter
    <2>2. CASE Submit(c) BY <2>2 DEF Submit, Accept
    <2>3. CASE SubmitRefused(c) BY <2>3 DEF SubmitRefused, Exit
    <2>4. CASE SubmitReplyLost(c) BY <2>4 DEF SubmitReplyLost, Accept, Lose, Exit
    <2>5. CASE HitCeiling(c)
      <3>1. \E how \in Outcomes : Abandon(c, how)
        BY <2>5 DEF HitCeiling
      <3> QED BY <3>1, AbandonTyped
    <2>6. CASE SeeLive(c) BY <2>6 DEF SeeLive, Answered
    <2>7. CASE AskFails(c)
      <3>1. CASE Abandon(c, "error") BY <3>1, AbandonTyped
      <3>2. CASE ~Abandon(c, "error") BY <2>7, <3>2 DEF AskFails, Answered
      <3> QED BY <3>1, <3>2
    <2>8. CASE SeeCompleted(c)
      <3>1. /\ pc' \in [Songs -> {"out", "run", "submit", "settle", "done"} \cup Polling]
            /\ outcome' \in [Songs -> Outcomes]
            /\ wall' \in [Songs -> Nat] /\ asked' \in [Songs -> Nat]
            /\ ran' \in [Songs -> Nat] /\ seen' \in [Songs -> Nat]
            /\ begun' \in [Songs -> BOOLEAN]
        <4>1. CASE Exit(c, "ok", "settle") BY <4>1 DEF Exit
        <4>2. CASE Exit(c, "error", "settle") BY <4>2 DEF Exit
        <4> QED BY <2>8, <4>1, <4>2 DEF SeeCompleted
      <3>2. cost' \in [Songs -> Nat]
        <4>1. Dearer(ran[c], asked[c]) \in Nat
          BY DEF Dearer
        <4> QED BY <2>8, <4>1 DEF SeeCompleted
      <3> QED BY <2>8, <3>1, <3>2 DEF SeeCompleted
    <2>9. CASE SeeFailed(c) BY <2>9 DEF SeeFailed, Exit
    <2>10. CASE Cancel(c) BY <2>10 DEF Cancel
    <2>11. CASE CancelLost(c) BY <2>11 DEF CancelLost, Lose
    <2>12. CASE Ask(c) BY <2>12 DEF Ask, MayAsk
    <2> QED BY <1>2, <2>1, <2>2, <2>3, <2>4, <2>5, <2>6, <2>7, <2>8, <2>9,
               <2>10, <2>11, <2>12 DEF Client, Submission, Poll
  <1>3. ASSUME NEW c \in Songs, RunPod(c) PROVE TypeOK'
    BY <1>3 DEF RunPod, RunStarts, RunEndsBy
  <1>4. ASSUME NEW c \in Songs, Forget(c) PROVE TypeOK'
    BY <1>4 DEF Forget
  <1>5. CASE Tick BY <1>5 DEF Tick, Waiting
  <1>6. CASE Crash BY <1>6 DEF Crash
  <1>7. CASE UNCHANGED vars BY <1>7
  <1> QED BY <1>1, <1>2, <1>3, <1>4, <1>5, <1>6, <1>7 DEF Next

\* Every variable stays in its type, and no song submits more often than its
\* tries allow while the pool is busy.
THEOREM SpendTypes == Spec => []TypeOK
  BY InitTyped, NextTyped, PTL DEF Spec

-----------------------------------------------------------------------------
(* No run is left behind *)

\* The invariant is inductive as it stands: a song submits from outside the
\* loop, where no run of it is live.
LEMMA NextWatched == TypeOK /\ LiveRunIsWatched /\ [Next]_vars => LiveRunIsWatched'
  <1> SUFFICES ASSUME TypeOK, LiveRunIsWatched, [Next]_vars PROVE LiveRunIsWatched'
    OBVIOUS
  <1> USE DEF TypeOK, LiveRunIsWatched, Busy, RunEnds, Live, Polling
  <1>1. ASSUME NEW c \in Songs, Caller(c) PROVE LiveRunIsWatched'
    BY <1>1 DEF Caller, ReadPrior, SubmitAgain, GiveUp, Realign, Record, Drop,
                FinishUnpaid, Finish
  <1>2. ASSUME NEW c \in Songs, Client(c) PROVE LiveRunIsWatched'
    <2>1. CASE Enter(c) BY <2>1 DEF Enter
    <2>2. CASE Submit(c) BY <2>2 DEF Submit, Accept
    <2>3. CASE SubmitRefused(c) BY <2>3 DEF SubmitRefused, Exit
    <2>4. CASE SubmitReplyLost(c) BY <2>4 DEF SubmitReplyLost, Accept, Lose, Exit
    <2>5. CASE HitCeiling(c) BY <2>5 DEF HitCeiling, Abandon, Exit
    <2>6. CASE SeeLive(c) BY <2>6 DEF SeeLive, Answered
    <2>7. CASE AskFails(c) BY <2>7 DEF AskFails, Answered, Abandon, Exit
    <2>8. CASE SeeCompleted(c) BY <2>8 DEF SeeCompleted, Exit
    <2>9. CASE SeeFailed(c) BY <2>9 DEF SeeFailed, Exit
    <2>10. CASE Cancel(c) BY <2>10 DEF Cancel
    <2>11. CASE CancelLost(c) BY <2>11 DEF CancelLost, Lose
    <2>12. CASE Ask(c) BY <2>12 DEF Ask, MayAsk
    <2> QED BY <1>2, <2>1, <2>2, <2>3, <2>4, <2>5, <2>6, <2>7, <2>8, <2>9,
               <2>10, <2>11, <2>12 DEF Client, Submission, Poll
  <1>3. ASSUME NEW c \in Songs, RunPod(c) PROVE LiveRunIsWatched'
    BY <1>3 DEF RunPod, RunStarts, RunEndsBy
  <1>4. ASSUME NEW c \in Songs, Forget(c) PROVE LiveRunIsWatched'
    BY <1>4 DEF Forget
  <1>5. CASE Tick BY <1>5 DEF Tick, Waiting
  <1>6. CASE Crash BY <1>6 DEF Crash
  <1>7. CASE UNCHANGED vars BY <1>7
  <1> QED BY <1>1, <1>2, <1>3, <1>4, <1>5, <1>6, <1>7 DEF Next

\* However windows close, no live run is left without a client, unless RunPod
\* could not be told.
THEOREM RunsAreWatched == Spec => []LiveRunIsWatched
  <1>1. Init => LiveRunIsWatched
    BY DEF Init, LiveRunIsWatched, Live
  <1> QED BY <1>1, InitTyped, NextTyped, NextWatched, PTL DEF Spec

-----------------------------------------------------------------------------
(* The clocks of a window *)

\* Execution never outruns the time since the window opened, and a status
\* request under way was sent below the caps and takes MaxAsk at most.
Clock(c) ==
  /\ ran[c] <= wall[c]
  /\ pc[c] = "asking" =>
       /\ asked[c] < WallCeiling
       /\ JobCap > 0 => asked[c] <= JobCap
       /\ asked[c] <= wall[c] /\ wall[c] <= asked[c] + MaxAsk

Clocks == \A c \in Songs : Clock(c)

\* Initially no clock runs.
LEMMA InitClocks == Init => Clocks
  <1> SUFFICES ASSUME Init, NEW c \in Songs PROVE Clock(c)
    BY DEF Clocks
  <1>1. ran[c] = 0 /\ wall[c] = 0 /\ pc[c] = "out"
    BY DEF Init
  <1> QED BY <1>1 DEF Clock

\* Every step keeps every clock.
LEMMA NextClocks == TypeOK /\ Clocks /\ [Next]_vars => Clocks'
  <1> SUFFICES ASSUME TypeOK, Clocks, [Next]_vars, NEW d \in Songs PROVE Clock(d)'
    BY DEF Clocks
  <1>0. Clock(d)
    BY DEF Clocks
  <1> USE <1>0 DEF TypeOK, Clock, Busy, RunEnds, Live, Polling
  <1>1. ASSUME NEW c \in Songs, Caller(c) PROVE Clock(d)'
    BY <1>1 DEF Caller, ReadPrior, SubmitAgain, GiveUp, Realign, Record, Drop,
                FinishUnpaid, Finish
  <1>2. ASSUME NEW c \in Songs, Client(c) PROVE Clock(d)'
    <2>1. CASE Enter(c) BY <2>1 DEF Enter
    <2>2. CASE Submit(c) BY <2>2 DEF Submit, Accept
    <2>3. CASE SubmitRefused(c) BY <2>3 DEF SubmitRefused, Exit
    <2>4. CASE SubmitReplyLost(c) BY <2>4 DEF SubmitReplyLost, Accept, Lose, Exit
    <2>5. CASE HitCeiling(c) BY <2>5 DEF HitCeiling, Abandon, Exit
    <2>6. CASE SeeLive(c) BY <2>6 DEF SeeLive, Answered
    <2>7. CASE AskFails(c) BY <2>7 DEF AskFails, Answered, Abandon, Exit
    <2>8. CASE SeeCompleted(c) BY <2>8 DEF SeeCompleted, Exit
    <2>9. CASE SeeFailed(c) BY <2>9 DEF SeeFailed, Exit
    <2>10. CASE Cancel(c) BY <2>10 DEF Cancel
    <2>11. CASE CancelLost(c) BY <2>11 DEF CancelLost, Lose
    <2>12. CASE Ask(c) BY <2>12 DEF Ask, MayAsk, WallTrips, CapTrips, Dearer
    <2> QED BY <1>2, <2>1, <2>2, <2>3, <2>4, <2>5, <2>6, <2>7, <2>8, <2>9,
               <2>10, <2>11, <2>12 DEF Client, Submission, Poll
  <1>3. ASSUME NEW c \in Songs, RunPod(c) PROVE Clock(d)'
    BY <1>3 DEF RunPod, RunStarts, RunEndsBy
  <1>4. ASSUME NEW c \in Songs, Forget(c) PROVE Clock(d)'
    BY <1>4 DEF Forget
  <1>5. CASE Tick BY <1>5 DEF Tick, Waiting
  <1>6. CASE Crash BY <1>6 DEF Crash
  <1>7. CASE UNCHANGED vars BY <1>7
  <1> QED BY <1>1, <1>2, <1>3, <1>4, <1>5, <1>6, <1>7 DEF Next

\* The price of a window whose results are there exceeds neither the wall
\* ceiling nor the per-job cap by more than one status request.
LEMMA PriceNearCap ==
  ASSUME TypeOK, Clocks, NEW c \in Songs, pc[c] = "asking"
  PROVE  /\ Dearer(ran[c], asked[c]) \in Nat
         /\ Dearer(ran[c], asked[c]) <= WallCeiling - 1 + MaxAsk
         /\ JobCap > 0 => Dearer(ran[c], asked[c]) <= JobCap + MaxAsk
  BY DEF TypeOK, Clocks, Clock, Dearer

-----------------------------------------------------------------------------
(* What a song is charged *)

\* A window is under way or has brought nothing yet.
Unpaid(c) == ~(pc[c] = "settle" /\ outcome[c] = "ok") /\ pc[c] # "done"

\* The account of one song: a window is charged once and near the caps, and
\* only finished songs are in the sum.
Account(c) ==
  /\ cost[c] <= pass[c] * (WallCeiling - 1 + MaxAsk)
  /\ JobCap > 0 => cost[c] <= pass[c] * (JobCap + MaxAsk)
  /\ Unpaid(c) =>
       /\ cost[c] <= (pass[c] - 1) * (WallCeiling - 1 + MaxAsk)
       /\ JobCap > 0 => cost[c] <= (pass[c] - 1) * (JobCap + MaxAsk)
       /\ pass[c] = 1 => cost[c] = 0
  /\ c \in counted => pc[c] = "done"
  /\ pc[c] = "out" => pass[c] = 1

Accounts == \A c \in Songs : Account(c)

\* The initial accounts are empty.
LEMMA InitAccounts == Init => Accounts
  <1> SUFFICES ASSUME Init, NEW c \in Songs PROVE Account(c)
    BY DEF Accounts
  <1>1. pass[c] = 1 /\ cost[c] = 0 /\ c \notin counted
    BY DEF Init
  <1> QED BY <1>1 DEF Account

\* Every step keeps every account.
LEMMA NextAccounts == TypeOK /\ Clocks /\ Accounts /\ [Next]_vars => Accounts'
  <1> SUFFICES ASSUME TypeOK, Clocks, Accounts, [Next]_vars, NEW d \in Songs PROVE Account(d)'
    BY DEF Accounts
  <1>0. Account(d)
    BY DEF Accounts
  <1>a. pass[d] = 1 \/ pass[d] = 2
    BY DEF TypeOK
  <1> USE <1>0, <1>a DEF TypeOK, Account, Unpaid, Busy, RunEnds, Live, Polling
  <1>1. ASSUME NEW c \in Songs, Caller(c) PROVE Account(d)'
    <2>1. CASE ReadPrior(c) BY <2>1 DEF ReadPrior
    <2>2. CASE SubmitAgain(c) BY <2>2 DEF SubmitAgain, MayRetry
    <2>3. CASE GiveUp(c) BY <2>3 DEF GiveUp, FinishUnpaid, Finish
    <2>4. CASE Realign(c) BY <2>4 DEF Realign
    <2>5. CASE Record(c) BY <2>5 DEF Record, Finish
    <2>6. CASE Drop(c) BY <2>6 DEF Drop, FinishUnpaid, Finish
    <2> QED BY <1>1, <2>1, <2>2, <2>3, <2>4, <2>5, <2>6 DEF Caller
  <1>2. ASSUME NEW c \in Songs, Client(c) PROVE Account(d)'
    <2>1. CASE Enter(c) BY <2>1 DEF Enter
    <2>2. CASE Submit(c) BY <2>2 DEF Submit, Accept
    <2>3. CASE SubmitRefused(c) BY <2>3 DEF SubmitRefused, Exit
    <2>4. CASE SubmitReplyLost(c) BY <2>4 DEF SubmitReplyLost, Accept, Lose, Exit
    <2>5. CASE HitCeiling(c) BY <2>5 DEF HitCeiling, Abandon, Exit
    <2>6. CASE SeeLive(c) BY <2>6 DEF SeeLive, Answered
    <2>7. CASE AskFails(c) BY <2>7 DEF AskFails, Answered, Abandon, Exit
    <2>8. CASE SeeCompleted(c)
      <3>1. pc[c] = "asking"
        BY <2>8 DEF SeeCompleted
      <3>2. CASE c = d BY <2>8, <3>1, <3>2, PriceNearCap DEF SeeCompleted, Exit
      <3>3. CASE c # d BY <2>8, <3>3 DEF SeeCompleted, Exit
      <3> QED BY <3>2, <3>3
    <2>9. CASE SeeFailed(c) BY <2>9 DEF SeeFailed, Exit
    <2>10. CASE Cancel(c) BY <2>10 DEF Cancel
    <2>11. CASE CancelLost(c) BY <2>11 DEF CancelLost, Lose
    <2>12. CASE Ask(c) BY <2>12 DEF Ask, MayAsk
    <2> QED BY <1>2, <2>1, <2>2, <2>3, <2>4, <2>5, <2>6, <2>7, <2>8, <2>9,
               <2>10, <2>11, <2>12 DEF Client, Submission, Poll
  <1>3. ASSUME NEW c \in Songs, RunPod(c) PROVE Account(d)'
    BY <1>3 DEF RunPod, RunStarts, RunEndsBy
  <1>4. ASSUME NEW c \in Songs, Forget(c) PROVE Account(d)'
    BY <1>4 DEF Forget
  <1>5. CASE Tick BY <1>5 DEF Tick, Waiting
  <1>6. CASE Crash BY <1>6 DEF Crash
  <1>7. CASE UNCHANGED vars BY <1>7
  <1> QED BY <1>1, <1>2, <1>3, <1>4, <1>5, <1>6, <1>7 DEF Next

\* No window is charged more beyond the per-job cap, nor beyond the wall
\* ceiling, than one status request takes.
THEOREM ChargesStayNear == Spec => []CostNearCap
  <1>1. Accounts => CostNearCap
    BY DEF Accounts, Account, CostNearCap
  <1> QED BY <1>1, InitTyped, NextTyped, InitClocks, NextClocks, InitAccounts, NextAccounts,
             PTL DEF Spec

-----------------------------------------------------------------------------
(* The day's cap, as a song read it *)

\* The view a song has of the day: its client keeps the sum it was given, a
\* rebuild adds its first window, and a window opens only below the cap.
View(c) ==
  pc[c] \notin {"out", "done"} =>
    /\ pc[c] = "finally" => outcome[c] # "ok"
    /\ pass[c] = 1 => prior[c] = seenSpent[c]
    /\ c \in Rebuilds /\ pass[c] = 2 /\ Unpaid(c) =>
         /\ prior[c] = seenSpent[c] + cost[c]
         /\ cost[c] > 0 => seenSpent[c] + cost[c] <= DayCap + MaxAsk
    /\ pc[c] \in {"submit", "poll", "asking", "sleep"} => prior[c] + JobCap <= DayCap
    /\ (c \in Rebuilds \/ pass[c] = 1) /\ ~Unpaid(c) /\ cost[c] > 0
         => seenSpent[c] + cost[c] <= DayCap + MaxAsk

Views == DayCap > 0 /\ JobCap > 0 => \A c \in Songs : View(c)

\* Leaving the loop with an error keeps every view.
LEMMA AbandonViewed ==
  ASSUME TypeOK, NEW c \in Songs, NEW d \in Songs, View(d), pc[c] \in {"poll", "asking"},
         NEW how \in Busy \cup {"error"}, Abandon(c, how)
  PROVE  View(d)'
  <1>1. CASE c = d BY <1>1 DEF TypeOK, View, Unpaid, Busy, Polling, Abandon, Exit
  <1>2. CASE c # d BY <1>2 DEF TypeOK, View, Unpaid, Abandon, Exit
  <1> QED BY <1>1, <1>2

\* Every step keeps every view.
LEMMA NextViews == TypeOK /\ Clocks /\ Accounts /\ Views /\ [Next]_vars => Views'
  <1> SUFFICES ASSUME TypeOK, Clocks, Accounts, Views, [Next]_vars,
                      DayCap > 0, JobCap > 0, NEW d \in Songs
               PROVE View(d)'
    BY DEF Views
  <1>0. View(d) /\ Account(d)
    BY DEF Views, Accounts
  <1>a. pass[d] = 1 \/ pass[d] = 2
    BY DEF TypeOK
  <1> USE <1>0, <1>a DEF TypeOK, View, Unpaid, Busy, RunEnds, Live, Polling
  <1>1. ASSUME NEW c \in Songs, Caller(c) PROVE View(d)'
    <2>1. CASE ReadPrior(c)
      BY <2>1 DEF ReadPrior, Account
    <2>2. CASE SubmitAgain(c) BY <2>2 DEF SubmitAgain, MayRetry
    <2>3. CASE GiveUp(c) BY <2>3 DEF GiveUp, FinishUnpaid, Finish
    <2>4. CASE Realign(c) BY <2>4 DEF Realign
    <2>5. CASE Record(c) BY <2>5 DEF Record, Finish
    <2>6. CASE Drop(c) BY <2>6 DEF Drop, FinishUnpaid, Finish
    <2> QED BY <1>1, <2>1, <2>2, <2>3, <2>4, <2>5, <2>6 DEF Caller
  <1>2. ASSUME NEW c \in Songs, Client(c) PROVE View(d)'
    <2>1. CASE Enter(c) BY <2>1 DEF Enter, OverDailyCap
    <2>2. CASE Submit(c) BY <2>2 DEF Submit, Accept
    <2>3. CASE SubmitRefused(c) BY <2>3 DEF SubmitRefused, Exit
    <2>4. CASE SubmitReplyLost(c) BY <2>4 DEF SubmitReplyLost, Accept, Lose, Exit
    <2>5. CASE HitCeiling(c)
      <3>1. \E how \in Busy \cup {"error"} : Abandon(c, how)
        BY <2>5 DEF HitCeiling
      <3> QED BY <2>5, <3>1, AbandonViewed DEF HitCeiling
    <2>6. CASE SeeLive(c) BY <2>6 DEF SeeLive, Answered
    <2>7. CASE AskFails(c)
      <3>1. CASE Abandon(c, "error") BY <2>7, <3>1, AbandonViewed DEF AskFails
      <3>2. CASE ~Abandon(c, "error") BY <2>7, <3>2 DEF AskFails, Answered
      <3> QED BY <3>1, <3>2
    <2>8. CASE SeeCompleted(c)
      <3>1. CASE c = d
        <4>1. pc[c] = "asking"
          BY <2>8 DEF SeeCompleted
        <4>2. /\ Dearer(ran[c], asked[c]) \in Nat
              /\ Dearer(ran[c], asked[c]) <= JobCap + MaxAsk
          BY <4>1, PriceNearCap
        <4>3. pass[c] = 1 => cost[c] = 0
          BY <3>1, <4>1 DEF Account
        <4> QED BY <2>8, <3>1, <4>1, <4>2, <4>3 DEF SeeCompleted, Exit
      <3>2. CASE c # d BY <2>8, <3>2 DEF SeeCompleted, Exit
      <3> QED BY <3>1, <3>2
    <2>9. CASE SeeFailed(c) BY <2>9 DEF SeeFailed, Exit
    <2>10. CASE Cancel(c) BY <2>10 DEF Cancel
    <2>11. CASE CancelLost(c) BY <2>11 DEF CancelLost, Lose
    <2>12. CASE Ask(c) BY <2>12 DEF Ask, MayAsk
    <2> QED BY <1>2, <2>1, <2>2, <2>3, <2>4, <2>5, <2>6, <2>7, <2>8, <2>9,
               <2>10, <2>11, <2>12 DEF Client, Submission, Poll
  <1>3. ASSUME NEW c \in Songs, RunPod(c) PROVE View(d)'
    BY <1>3 DEF RunPod, RunStarts, RunEndsBy
  <1>4. ASSUME NEW c \in Songs, Forget(c) PROVE View(d)'
    BY <1>4 DEF Forget, Accounts, Account
  <1>5. CASE Tick BY <1>5 DEF Tick, Waiting
  <1>6. CASE Crash BY <1>6 DEF Crash
  <1>7. CASE UNCHANGED vars BY <1>7
  <1> QED BY <1>1, <1>2, <1>3, <1>4, <1>5, <1>6, <1>7 DEF Next

\* A song never spends beyond the day's cap as it read it by more than one
\* status request takes; a pipeline is held to that in its first window only.
THEOREM OwnCapIsKept == Spec => []OwnCapKept
  <1>1. Init => Views
    BY DEF Init, Views, View
  <1>2. TypeOK /\ Accounts /\ Views => OwnCapKept
    BY DEF TypeOK, Accounts, Account, Views, View, OwnCapKept, Unpaid
  <1> QED BY <1>1, <1>2, InitTyped, NextTyped, InitClocks, NextClocks, InitAccounts, NextAccounts,
             NextViews, PTL DEF Spec
=============================================================================
