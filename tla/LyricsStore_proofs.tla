--------------------------- MODULE LyricsStore_proofs ---------------------------
(* Proofs about LyricsStore, for any rebuilds and reviews, and any number of    *)
(* faults and overruns.                                                         *)
EXTENDS LyricsStore, FiniteSetTheorems, TLAPS

USE WritersAssumption, BoundsAssumption

\* Unfolds the abbreviations for groups of variables.
USE DEF vars, database, disk, ghosts, bounds

-----------------------------------------------------------------------------
(* Types *)

\* No writer is the job, the missing file or nobody, and none is both.
LEMMA Apart ==
  /\ Nobody \notin Writers /\ Job \notin Writers /\ Missing \notin Writers /\ Job # Missing
  /\ Rebuilds \subseteq Writers /\ Reviews \subseteq Writers
  /\ \A r \in Rebuilds : r \notin Reviews
  BY WritersAssumption DEF Writers

\* What a rebuild or a torn write leaves is a revision.
LEMMA RevisionsTyped ==
  /\ \A w \in Writers : By(w) \in Revisions
  /\ NoFiles \in Revisions
  /\ \A f \in Revisions : RowsOf(f) \in [{"lrc", "txt"} -> Writers \cup {Job, Missing}]
  /\ \A w \in Writers, f \in Revisions, shape \in Shapes : Swapped(w, shape, f) \in Revisions
  /\ \A order, k : \A new, old \in Revisions : Partly(order, k, new, old) \in Revisions
  <1> USE DEF Revisions, Names, By, NoFiles, RowsOf
  <1>1. \A w \in Writers, f \in Revisions, shape \in Shapes : Swapped(w, shape, f) \in Revisions
    BY DEF Swapped
  <1>2. \A order, k : \A new, old \in Revisions : Partly(order, k, new, old) \in Revisions
    BY DEF Partly
  <1> QED BY <1>1, <1>2

\* The initial state is well typed.
LEMMA InitTyped == Init => TypeOK
  <1> SUFFICES ASSUME Init PROVE TypeOK
    OBVIOUS
  <1> USE DEF Init
  <1>1. files \in Revisions /\ sizes \in [{"lrc", "txt"} -> Writers \cup {Job, Missing}]
    BY DEF Revisions, By, RowsOf, Names
  <1>2. pc \in [Writers -> Steps] /\ \A w \in Writers : held = w <=> pc[w] \in {"write", "commit"}
    BY Apart DEF Steps
  <1>3. seen \in [Reviews -> Revisions]
    BY <1>1
  <1>4. lock \in Locks
    BY DEF Locks
  <1>5. /\ faults \in 0 .. MaxFaults /\ troubles \in 0 .. faults /\ overruns \in 0 .. MaxOverruns
        /\ backups \subseteq Revisions /\ saved \subseteq Reviews /\ late \subseteq saved
    BY BoundsAssumption
  <1> QED BY <1>1, <1>2, <1>3, <1>4, <1>5 DEF TypeOK

\* A lock that a rebuild takes, or that runs out, is one.
LEMMA LocksTyped ==
  /\ \A r \in Rebuilds : [by |-> r, live |-> TRUE] \in Locks
  /\ \A l \in Locks : Stale(l) \in Locks
  /\ NoLock \in Locks
  <1>1. \A r \in Rebuilds : [by |-> r, live |-> TRUE] \in Locks
    BY DEF Locks
  <1>2. NoLock \in Locks
    BY DEF Locks
  <1>3. ASSUME NEW l \in Locks PROVE Stale(l) \in Locks
    <2>1. CASE l = NoLock
      <3>1. l.by = Missing BY <2>1 DEF NoLock
      <3>2. Stale(l) = NoLock BY <3>1 DEF NoLock, Stale
      <3> QED BY <3>2, <1>2
    <2>2. CASE l \in [by : Rebuilds, live : BOOLEAN]
      BY <2>2 DEF Locks, Stale
    <2> QED BY <2>1, <2>2 DEF Locks
  <1> QED BY <1>1, <1>2, <1>3

\* Steps of the control are in their type.
LEMMA GotoTyped ==
  ASSUME TypeOK, NEW w \in Writers, NEW to \in Steps, Goto(w, to)
  PROVE  /\ pc' \in [Writers -> Steps]
         /\ pc'[w] = to /\ \A u \in Writers \ {w} : pc'[u] = pc[u]
  BY DEF TypeOK, Goto

\* A kill, amid a write or not, is well typed.
LEMMA CrashTyped ==
  ASSUME TypeOK, NEW f \in Revisions, CrashWith(f)
  PROVE  TypeOK'
  <1>1. pc' \in [Writers -> Steps] /\ \A w \in Writers : pc'[w] \notin {"write", "commit"}
    BY DEF TypeOK, CrashWith, Killed, Steps
  <1>2. lock' \in Locks
    BY LocksTyped DEF TypeOK, CrashWith
  <1>3. held' = Nobody /\ Nobody \notin Writers
    BY DEF CrashWith
  <1>4. unsettled' \in BOOLEAN /\ faults' \in 0 .. MaxFaults /\ troubles' \in 0 .. faults'
    BY DEF TypeOK, CrashWith, Fault
  <1> QED BY <1>1, <1>2, <1>3, <1>4 DEF TypeOK, CrashWith, Fault

\* Every step keeps the types, and the row lock its owner.
LEMMA NextTyped == TypeOK /\ [Next]_vars => TypeOK'
  <1> SUFFICES ASSUME TypeOK, [Next]_vars PROVE TypeOK'
    OBVIOUS
  <1> USE DEF TypeOK, Goto, Steps, LockAlive, Fault, DbFault, DiskFault
  <1>1. ASSUME NEW r \in Rebuilds, Request(r) \/ RebuildStep(r) \/ CrashInSwap(r) PROVE TypeOK'
    <2>0. r \in Writers /\ r \notin Reviews BY WritersAssumption DEF Writers
    <2>1. CASE Request(r) BY <2>0, <2>1 DEF Request
    <2>2. CASE Start(r) BY <2>0, <2>2 DEF Start
    <2>3. CASE Acquire(r)
      BY <2>0, <2>3, LocksTyped DEF Acquire
    <2>4. CASE SetNote(r) BY <2>0, <2>4 DEF SetNote
    <2>5. CASE Backup(r)
      BY <2>0, <2>5, RevisionsTyped DEF Backup
    <2>6. CASE ComputeFails(r) BY <2>0, <2>6 DEF ComputeFails
    <2>7. CASE Swap(r)
      <3>1. files' \in Revisions
        BY <2>0, <2>7, RevisionsTyped DEF Swap
      <3> QED BY <2>0, <2>7, <3>1 DEF Swap
    <2>8. CASE SwapRefused(r) BY <2>0, <2>8 DEF SwapRefused
    <2>9. CASE SwapBreaks(r)
      <3>1. files' \in Revisions
        <4>1. PICK shape \in Shapes, k \in 0 .. 3 : files' = Partly(SwapOrder, k, Swapped(r, shape, files), files)
          BY <2>9 DEF SwapBreaks
        <4> QED BY <2>0, <4>1, RevisionsTyped
      <3> QED BY <2>0, <2>9, <3>1 DEF SwapBreaks
    <2>10. CASE SwapCommit(r)
      BY <2>0, <2>10, RevisionsTyped DEF SwapCommit
    <2>11. CASE SwapCommitFails(r)
      <3>1. sizes' \in [{"lrc", "txt"} -> Writers \cup {Job, Missing}] /\ unsettled' \in BOOLEAN
        BY <2>0, <2>11, RevisionsTyped DEF SwapCommitFails
      <3> QED BY <2>0, <2>11, <3>1, Apart DEF SwapCommitFails
    <2>12. CASE Fail(r) BY <2>0, <2>12 DEF Fail
    <2>13. CASE End(r)
      BY <2>0, <2>13, LocksTyped DEF End
    <2>14. CASE CrashInSwap(r)
      BY <2>0, <2>14, RevisionsTyped, CrashTyped DEF CrashInSwap
    <2> QED BY <1>1, <2>1, <2>2, <2>3, <2>4, <2>5, <2>6, <2>7, <2>8, <2>9, <2>10, <2>11, <2>12, <2>13, <2>14 DEF RebuildStep
  <1>2. ASSUME NEW v \in Reviews, See(v) \/ Put(v) \/ ReviewStep(v) \/ CrashInWrite(v) PROVE TypeOK'
    <2>0. v \in Writers /\ v \notin Rebuilds BY WritersAssumption DEF Writers
    <2>1. CASE See(v) BY <2>0, <2>1 DEF See
    <2>2. CASE Put(v) BY <2>0, <2>2 DEF Put
    <2>3. CASE Write(v)
      BY <2>0, <2>3, RevisionsTyped DEF Write
    <2>4. CASE WriteFails(v) BY <2>0, <2>4 DEF WriteFails
    <2>5. CASE ReviewCommit(v)
      BY <2>0, <2>5, RevisionsTyped DEF ReviewCommit
    <2>6. CASE ReviewCommitFails(v)
      <3>0. RowsOf(By(v)) \in [{"lrc", "txt"} -> Writers \cup {Job, Missing}]
        BY <2>0, RevisionsTyped
      <3>1. sizes' \in [{"lrc", "txt"} -> Writers \cup {Job, Missing}] /\ unsettled' \in BOOLEAN
        BY <3>0, <2>6 DEF ReviewCommitFails
      <3> QED BY <2>0, <2>6, <3>1, Apart DEF ReviewCommitFails
    <2>7. CASE Reconcile(v)
      <3>0. RowsOf(By(v)) \in [{"lrc", "txt"} -> Writers \cup {Job, Missing}]
        BY <2>0, RevisionsTyped
      <3>1. sizes' \in [{"lrc", "txt"} -> Writers \cup {Job, Missing}] /\ unsettled' \in BOOLEAN
        BY <3>0, <2>7 DEF Reconcile
      <3> QED BY <2>0, <2>7, <3>1, Apart DEF Reconcile
    <2>8. CASE ReconcileFails(v) BY <2>0, <2>8 DEF ReconcileFails
    <2>9. CASE CrashInWrite(v)
      BY <2>0, <2>9, RevisionsTyped, CrashTyped DEF CrashInWrite
    <2> QED BY <1>2, <2>1, <2>2, <2>3, <2>4, <2>5, <2>6, <2>7, <2>8, <2>9 DEF ReviewStep
  <1>3. CASE Overrun
    BY <1>3, LocksTyped DEF Overrun
  <1>4. CASE DeleteRow
    BY <1>4, RevisionsTyped DEF DeleteRow
  <1>5. CASE RemoveTree
    BY <1>5, RevisionsTyped, LocksTyped DEF RemoveTree
  <1>6. CASE Crash
    BY <1>6, CrashTyped DEF Crash
  <1>7. CASE UNCHANGED vars BY <1>7
  <1> QED BY <1>1, <1>2, <1>3, <1>4, <1>5, <1>6, <1>7 DEF Next

(***************************************************************************)
(* Every variable of the store stays in its type, and the row lock is held *)
(* by exactly the writer that is between its write and the end of its      *)
(* transaction.                                                            *)
(***************************************************************************)
THEOREM StoreTypes == Spec => []TypeOK
  BY InitTyped, NextTyped, PTL DEF Spec

-----------------------------------------------------------------------------
(* The row lock and the files *)

\* What the row lock protects: the row does not go, a review that is about to
\* write has the revision that was seen before it, and in a backup, and one that
\* has written has its files there.
Guarded ==
  /\ held # Nobody => row = "there"
  /\ \A v \in Reviews : pc[v] = "write" => files = seen[v] /\ files \in backups
  /\ \A v \in Reviews : pc[v] = "commit" => files = By(v)

\* Killed tasks are neither writing nor committing nor at any step of a rebuild.
LEMMA KillsAll ==
  ASSUME TypeOK, NEW f, CrashWith(f)
  PROVE  /\ held' = Nobody
         /\ \A w \in Writers : pc'[w] \in {"idle", "seen", "done"}
  BY DEF TypeOK, CrashWith, Killed, Steps

\* The row lock keeps what it protects.
LEMMA NextGuarded == TypeOK /\ Guarded /\ [Next]_vars => Guarded'
  <1> SUFFICES ASSUME TypeOK /\ Guarded, [Next]_vars PROVE Guarded'
    OBVIOUS
  <1> USE DEF Guarded
  <1>0. /\ pc \in [Writers -> Steps] /\ Nobody \notin Writers
        /\ \A w \in Writers : held = w <=> pc[w] \in {"write", "commit"}
    BY Apart DEF TypeOK
  <1>1. ASSUME NEW r \in Rebuilds, Request(r) \/ RebuildStep(r) \/ CrashInSwap(r) PROVE Guarded'
    <2>0. r \in Writers /\ r \notin Reviews BY WritersAssumption DEF Writers
    <2>1. CASE Request(r)
      <3>1. \A v \in Reviews : pc'[v] = pc[v]
        BY <1>0, <2>0, <2>1, Apart DEF Request, Goto
      <3> QED BY <1>0, <2>0, <2>1, <3>1, Apart DEF Request
    <2>2. CASE Start(r)
      <3>1. \A v \in Reviews : pc'[v] = pc[v]
        BY <1>0, <2>0, <2>2, Apart DEF Start, Goto
      <3> QED BY <1>0, <2>0, <2>2, <3>1, Apart DEF Start
    <2>3. CASE Acquire(r)
      <3>1. \A v \in Reviews : pc'[v] = pc[v]
        BY <1>0, <2>0, <2>3, Apart DEF Acquire, Goto
      <3> QED BY <1>0, <2>0, <2>3, <3>1, Apart DEF Acquire
    <2>4. CASE SetNote(r)
      <3>1. \A v \in Reviews : pc'[v] = pc[v]
        BY <1>0, <2>0, <2>4, Apart DEF SetNote, Goto
      <3> QED BY <1>0, <2>0, <2>4, <3>1, Apart DEF SetNote
    <2>5. CASE Backup(r)
      <3>1. \A v \in Reviews : pc'[v] = pc[v]
        BY <1>0, <2>0, <2>5, Apart DEF Backup, Goto
      <3> QED BY <1>0, <2>0, <2>5, <3>1, Apart DEF Backup
    <2>6. CASE ComputeFails(r)
      <3>1. \A v \in Reviews : pc'[v] = pc[v]
        BY <1>0, <2>0, <2>6, Apart DEF ComputeFails, Goto
      <3> QED BY <1>0, <2>0, <2>6, <3>1, Apart DEF ComputeFails
    <2>7. CASE Swap(r)
      <3>1. \A v \in Reviews : pc'[v] = pc[v]
        BY <1>0, <2>0, <2>7, Apart DEF Swap, Goto
      <3> QED BY <1>0, <2>0, <2>7, <3>1, Apart DEF Swap
    <2>8. CASE SwapRefused(r)
      <3>1. \A v \in Reviews : pc'[v] = pc[v]
        BY <1>0, <2>0, <2>8, Apart DEF SwapRefused, Goto
      <3> QED BY <1>0, <2>0, <2>8, <3>1, Apart DEF SwapRefused
    <2>9. CASE SwapBreaks(r)
      <3>1. \A v \in Reviews : pc'[v] = pc[v]
        BY <1>0, <2>0, <2>9, Apart DEF SwapBreaks, Goto
      <3> QED BY <1>0, <2>0, <2>9, <3>1, Apart DEF SwapBreaks
    <2>10. CASE SwapCommit(r)
      <3>1. \A v \in Reviews : pc'[v] = pc[v]
        BY <1>0, <2>0, <2>10, Apart DEF SwapCommit, Goto
      <3> QED BY <1>0, <2>0, <2>10, <3>1, Apart DEF SwapCommit
    <2>11. CASE SwapCommitFails(r)
      <3>1. \A v \in Reviews : pc'[v] = pc[v]
        BY <1>0, <2>0, <2>11, Apart DEF SwapCommitFails, Goto
      <3> QED BY <1>0, <2>0, <2>11, <3>1, Apart DEF SwapCommitFails
    <2>12. CASE Fail(r)
      <3>1. \A v \in Reviews : pc'[v] = pc[v]
        BY <1>0, <2>0, <2>12, Apart DEF Fail, Goto
      <3> QED BY <1>0, <2>0, <2>12, <3>1, Apart DEF Fail
    <2>13. CASE End(r)
      <3>1. \A v \in Reviews : pc'[v] = pc[v]
        BY <1>0, <2>0, <2>13, Apart DEF End, Goto
      <3> QED BY <1>0, <2>0, <2>13, <3>1, Apart DEF End
    <2>14. CASE CrashInSwap(r)
      BY <1>0, <2>0, <2>14, KillsAll, Apart DEF CrashInSwap
    <2> QED BY <1>1, <2>1, <2>2, <2>3, <2>4, <2>5, <2>6, <2>7, <2>8, <2>9, <2>10, <2>11, <2>12, <2>13, <2>14 DEF RebuildStep
  <1>2. ASSUME NEW v \in Reviews, See(v) \/ Put(v) \/ ReviewStep(v) \/ CrashInWrite(v) PROVE Guarded'
    <2>0. v \in Writers /\ v \notin Rebuilds BY WritersAssumption DEF Writers
    <2>1. CASE See(v)
      <3>1. pc'[v] \in {"seen"} /\ \A u \in Reviews \ {v} : pc'[u] = pc[u]
        BY <1>0, <2>0, <2>1, Apart DEF See, Goto
      <3>2. held' # Nobody => row' = "there"
        BY <1>0, <2>0, <2>1 DEF See
      <3>3. ASSUME NEW u \in Reviews, pc'[u] = "write" PROVE files' = seen'[u] /\ files' \in backups'
        BY <1>0, <2>0, <2>1, <3>1, <3>3, Apart DEF See
      <3>4. ASSUME NEW u \in Reviews, pc'[u] = "commit" PROVE files' = By(u)
        BY <1>0, <2>0, <2>1, <3>1, <3>4, Apart DEF See
      <3> QED BY <3>2, <3>3, <3>4
    <2>2. CASE Put(v)
      <3>1. pc'[v] \in {"write", "idle", "done"} /\ \A u \in Reviews \ {v} : pc'[u] = pc[u]
        BY <1>0, <2>0, <2>2, Apart DEF Put, Goto
      <3>2. held' # Nobody => row' = "there"
        BY <1>0, <2>0, <2>2 DEF Put
      <3>3. ASSUME NEW u \in Reviews, pc'[u] = "write" PROVE files' = seen'[u] /\ files' \in backups'
        BY <1>0, <2>0, <2>2, <3>1, <3>3, Apart DEF Put, Goto
      <3>4. ASSUME NEW u \in Reviews, pc'[u] = "commit" PROVE files' = By(u)
        BY <1>0, <2>0, <2>2, <3>1, <3>4, Apart DEF Put, Goto
      <3> QED BY <3>2, <3>3, <3>4
    <2>3. CASE Write(v)
      <3>1. pc'[v] \in {"commit"} /\ \A u \in Reviews \ {v} : pc'[u] = pc[u]
        BY <1>0, <2>0, <2>3, Apart DEF Write, Goto
      <3>2. held' # Nobody => row' = "there"
        BY <1>0, <2>0, <2>3 DEF Write
      <3>3. ASSUME NEW u \in Reviews, pc'[u] = "write" PROVE files' = seen'[u] /\ files' \in backups'
        BY <1>0, <2>0, <2>3, <3>1, <3>3, Apart DEF Write
      <3>4. ASSUME NEW u \in Reviews, pc'[u] = "commit" PROVE files' = By(u)
        BY <1>0, <2>0, <2>3, <3>1, <3>4, Apart DEF Write
      <3> QED BY <3>2, <3>3, <3>4
    <2>4. CASE WriteFails(v)
      <3>1. pc'[v] \in {"done"} /\ \A u \in Reviews \ {v} : pc'[u] = pc[u]
        BY <1>0, <2>0, <2>4, Apart DEF WriteFails, Goto
      <3>2. held' # Nobody => row' = "there"
        BY <1>0, <2>0, <2>4 DEF WriteFails
      <3>3. ASSUME NEW u \in Reviews, pc'[u] = "write" PROVE files' = seen'[u] /\ files' \in backups'
        BY <1>0, <2>0, <2>4, <3>1, <3>3, Apart DEF WriteFails
      <3>4. ASSUME NEW u \in Reviews, pc'[u] = "commit" PROVE files' = By(u)
        BY <1>0, <2>0, <2>4, <3>1, <3>4, Apart DEF WriteFails
      <3> QED BY <3>2, <3>3, <3>4
    <2>5. CASE ReviewCommit(v)
      <3>1. pc'[v] \in {"done"} /\ \A u \in Reviews \ {v} : pc'[u] = pc[u]
        BY <1>0, <2>0, <2>5, Apart DEF ReviewCommit, Goto
      <3>2. held' # Nobody => row' = "there"
        BY <1>0, <2>0, <2>5 DEF ReviewCommit
      <3>3. ASSUME NEW u \in Reviews, pc'[u] = "write" PROVE files' = seen'[u] /\ files' \in backups'
        BY <1>0, <2>0, <2>5, <3>1, <3>3, Apart DEF ReviewCommit
      <3>4. ASSUME NEW u \in Reviews, pc'[u] = "commit" PROVE files' = By(u)
        BY <1>0, <2>0, <2>5, <3>1, <3>4, Apart DEF ReviewCommit
      <3> QED BY <3>2, <3>3, <3>4
    <2>6. CASE ReviewCommitFails(v)
      <3>1. pc'[v] \in {"done", "reconcile"} /\ \A u \in Reviews \ {v} : pc'[u] = pc[u]
        BY <1>0, <2>0, <2>6, Apart DEF ReviewCommitFails, Goto
      <3>2. held' # Nobody => row' = "there"
        BY <1>0, <2>0, <2>6 DEF ReviewCommitFails
      <3>3. ASSUME NEW u \in Reviews, pc'[u] = "write" PROVE files' = seen'[u] /\ files' \in backups'
        BY <1>0, <2>0, <2>6, <3>1, <3>3, Apart DEF ReviewCommitFails
      <3>4. ASSUME NEW u \in Reviews, pc'[u] = "commit" PROVE files' = By(u)
        BY <1>0, <2>0, <2>6, <3>1, <3>4, Apart DEF ReviewCommitFails
      <3> QED BY <3>2, <3>3, <3>4
    <2>7. CASE Reconcile(v)
      <3>1. pc'[v] \in {"done"} /\ \A u \in Reviews \ {v} : pc'[u] = pc[u]
        BY <1>0, <2>0, <2>7, Apart DEF Reconcile, Goto
      <3>2. held' # Nobody => row' = "there"
        BY <1>0, <2>0, <2>7 DEF Reconcile
      <3>3. ASSUME NEW u \in Reviews, pc'[u] = "write" PROVE files' = seen'[u] /\ files' \in backups'
        BY <1>0, <2>0, <2>7, <3>1, <3>3, Apart DEF Reconcile
      <3>4. ASSUME NEW u \in Reviews, pc'[u] = "commit" PROVE files' = By(u)
        BY <1>0, <2>0, <2>7, <3>1, <3>4, Apart DEF Reconcile
      <3> QED BY <3>2, <3>3, <3>4
    <2>8. CASE ReconcileFails(v)
      <3>1. pc'[v] \in {"done"} /\ \A u \in Reviews \ {v} : pc'[u] = pc[u]
        BY <1>0, <2>0, <2>8, Apart DEF ReconcileFails, Goto
      <3>2. held' # Nobody => row' = "there"
        BY <1>0, <2>0, <2>8 DEF ReconcileFails
      <3>3. ASSUME NEW u \in Reviews, pc'[u] = "write" PROVE files' = seen'[u] /\ files' \in backups'
        BY <1>0, <2>0, <2>8, <3>1, <3>3, Apart DEF ReconcileFails
      <3>4. ASSUME NEW u \in Reviews, pc'[u] = "commit" PROVE files' = By(u)
        BY <1>0, <2>0, <2>8, <3>1, <3>4, Apart DEF ReconcileFails
      <3> QED BY <3>2, <3>3, <3>4
    <2>9. CASE CrashInWrite(v)
      BY <1>0, <2>0, <2>9, KillsAll, Apart DEF CrashInWrite
    <2> QED BY <1>2, <2>1, <2>2, <2>3, <2>4, <2>5, <2>6, <2>7, <2>8, <2>9 DEF ReviewStep
  <1>3. CASE Overrun BY <1>0, <1>3 DEF Overrun
  <1>4. CASE DeleteRow BY <1>0, <1>4 DEF DeleteRow
  <1>5. CASE RemoveTree
    <2>1. \A w \in Writers : pc'[w] \notin {"write", "commit"}
      BY <1>0, <1>5 DEF RemoveTree
    <2> QED BY <1>0, <1>5, <2>1, Apart DEF RemoveTree
  <1>6. CASE Crash
    BY <1>0, <1>6, KillsAll, Apart DEF Crash
  <1>7. CASE UNCHANGED vars BY <1>0, <1>7
  <1> QED BY <1>1, <1>2, <1>3, <1>4, <1>5, <1>6, <1>7 DEF Next

-----------------------------------------------------------------------------
(* No review is lost *)

\* What a rebuild that waits for the row would overwrite is in a backup: the
\* reviews put in place before it made its backup.
Safe ==
  row = "there" => \A v \in saved \ late :
    /\ Kept(v)
    /\ \A r \in Rebuilds : pc[r] = "wait" => By(v) \in backups

\* Every step keeps the reviews safe.
LEMMA NextSafe == TypeOK /\ Guarded /\ Safe /\ [Next]_vars => Safe'
  <1> SUFFICES ASSUME TypeOK /\ Guarded /\ Safe, [Next]_vars PROVE Safe'
    OBVIOUS
  <1> USE DEF Safe, Kept
  <1>0. /\ pc \in [Writers -> Steps] /\ Nobody \notin Writers
        /\ \A w \in Writers : held = w <=> pc[w] \in {"write", "commit"}
    BY Apart DEF TypeOK
  <1>1. ASSUME NEW r \in Rebuilds, Request(r) \/ RebuildStep(r) \/ CrashInSwap(r) PROVE Safe'
    <2>0. r \in Writers /\ r \notin Reviews BY WritersAssumption DEF Writers
    <2>1. CASE Request(r)
      <3>1. SUFFICES ASSUME row' = "there", NEW x \in saved' \ late'
                       PROVE  Kept(x)' /\ \A q \in Rebuilds : pc'[q] = "wait" => By(x) \in backups'
        OBVIOUS
      <3>2. row = "there"
        BY <2>1, <3>1 DEF Request
      <3>3. x \in saved \ late => Kept(x) /\ \A q \in Rebuilds : pc[q] = "wait" => By(x) \in backups
        BY <3>2
      <3> QED BY <1>0, <2>0, <2>1, <3>1, <3>2, <3>3, Apart DEF Request, Goto
    <2>2. CASE Start(r)
      <3>1. SUFFICES ASSUME row' = "there", NEW x \in saved' \ late'
                       PROVE  Kept(x)' /\ \A q \in Rebuilds : pc'[q] = "wait" => By(x) \in backups'
        OBVIOUS
      <3>2. row = "there"
        BY <2>2, <3>1 DEF Start
      <3>3. x \in saved \ late => Kept(x) /\ \A q \in Rebuilds : pc[q] = "wait" => By(x) \in backups
        BY <3>2
      <3> QED BY <1>0, <2>0, <2>2, <3>1, <3>2, <3>3, Apart DEF Start, Goto
    <2>3. CASE Acquire(r)
      <3>1. SUFFICES ASSUME row' = "there", NEW x \in saved' \ late'
                       PROVE  Kept(x)' /\ \A q \in Rebuilds : pc'[q] = "wait" => By(x) \in backups'
        OBVIOUS
      <3>2. row = "there"
        BY <2>3, <3>1 DEF Acquire
      <3>3. x \in saved \ late => Kept(x) /\ \A q \in Rebuilds : pc[q] = "wait" => By(x) \in backups
        BY <3>2
      <3> QED BY <1>0, <2>0, <2>3, <3>1, <3>2, <3>3, Apart DEF Acquire, Goto
    <2>4. CASE SetNote(r)
      <3>1. SUFFICES ASSUME row' = "there", NEW x \in saved' \ late'
                       PROVE  Kept(x)' /\ \A q \in Rebuilds : pc'[q] = "wait" => By(x) \in backups'
        OBVIOUS
      <3>2. row = "there"
        BY <2>4, <3>1 DEF SetNote
      <3>3. x \in saved \ late => Kept(x) /\ \A q \in Rebuilds : pc[q] = "wait" => By(x) \in backups
        BY <3>2
      <3> QED BY <1>0, <2>0, <2>4, <3>1, <3>2, <3>3, Apart DEF SetNote, Goto
    <2>5. CASE Backup(r)
      <3>1. SUFFICES ASSUME row' = "there", NEW x \in saved' \ late'
                       PROVE  Kept(x)' /\ \A q \in Rebuilds : pc'[q] = "wait" => By(x) \in backups'
        OBVIOUS
      <3>2. row = "there"
        BY <2>5, <3>1 DEF Backup
      <3>3. x \in saved \ late => Kept(x) /\ \A q \in Rebuilds : pc[q] = "wait" => By(x) \in backups
        BY <3>2
      <3> QED BY <1>0, <2>0, <2>5, <3>1, <3>2, <3>3, Apart DEF Backup, Goto
    <2>6. CASE ComputeFails(r)
      <3>1. SUFFICES ASSUME row' = "there", NEW x \in saved' \ late'
                       PROVE  Kept(x)' /\ \A q \in Rebuilds : pc'[q] = "wait" => By(x) \in backups'
        OBVIOUS
      <3>2. row = "there"
        BY <2>6, <3>1 DEF ComputeFails
      <3>3. x \in saved \ late => Kept(x) /\ \A q \in Rebuilds : pc[q] = "wait" => By(x) \in backups
        BY <3>2
      <3> QED BY <1>0, <2>0, <2>6, <3>1, <3>2, <3>3, Apart DEF ComputeFails, Goto
    <2>7. CASE Swap(r)
      <3>1. SUFFICES ASSUME row' = "there", NEW x \in saved' \ late'
                       PROVE  Kept(x)' /\ \A q \in Rebuilds : pc'[q] = "wait" => By(x) \in backups'
        OBVIOUS
      <3>2. row = "there"
        BY <2>7, <3>1 DEF Swap
      <3>3. x \in saved \ late => Kept(x) /\ \A q \in Rebuilds : pc[q] = "wait" => By(x) \in backups
        BY <3>2
      <3> QED BY <1>0, <2>0, <2>7, <3>1, <3>2, <3>3, Apart DEF Swap, Goto
    <2>8. CASE SwapRefused(r)
      <3>1. SUFFICES ASSUME row' = "there", NEW x \in saved' \ late'
                       PROVE  Kept(x)' /\ \A q \in Rebuilds : pc'[q] = "wait" => By(x) \in backups'
        OBVIOUS
      <3>2. row = "there"
        BY <2>8, <3>1 DEF SwapRefused
      <3>3. x \in saved \ late => Kept(x) /\ \A q \in Rebuilds : pc[q] = "wait" => By(x) \in backups
        BY <3>2
      <3> QED BY <1>0, <2>0, <2>8, <3>1, <3>2, <3>3, Apart DEF SwapRefused, Goto
    <2>9. CASE SwapBreaks(r)
      <3>1. SUFFICES ASSUME row' = "there", NEW x \in saved' \ late'
                       PROVE  Kept(x)' /\ \A q \in Rebuilds : pc'[q] = "wait" => By(x) \in backups'
        OBVIOUS
      <3>2. row = "there"
        BY <2>9, <3>1 DEF SwapBreaks
      <3>3. x \in saved \ late => Kept(x) /\ \A q \in Rebuilds : pc[q] = "wait" => By(x) \in backups
        BY <3>2
      <3> QED BY <1>0, <2>0, <2>9, <3>1, <3>2, <3>3, Apart DEF SwapBreaks, Goto
    <2>10. CASE SwapCommit(r)
      <3>1. SUFFICES ASSUME row' = "there", NEW x \in saved' \ late'
                       PROVE  Kept(x)' /\ \A q \in Rebuilds : pc'[q] = "wait" => By(x) \in backups'
        OBVIOUS
      <3>2. row = "there"
        BY <2>10, <3>1 DEF SwapCommit
      <3>3. x \in saved \ late => Kept(x) /\ \A q \in Rebuilds : pc[q] = "wait" => By(x) \in backups
        BY <3>2
      <3> QED BY <1>0, <2>0, <2>10, <3>1, <3>2, <3>3, Apart DEF SwapCommit, Goto
    <2>11. CASE SwapCommitFails(r)
      <3>1. SUFFICES ASSUME row' = "there", NEW x \in saved' \ late'
                       PROVE  Kept(x)' /\ \A q \in Rebuilds : pc'[q] = "wait" => By(x) \in backups'
        OBVIOUS
      <3>2. row = "there"
        BY <2>11, <3>1 DEF SwapCommitFails
      <3>3. x \in saved \ late => Kept(x) /\ \A q \in Rebuilds : pc[q] = "wait" => By(x) \in backups
        BY <3>2
      <3> QED BY <1>0, <2>0, <2>11, <3>1, <3>2, <3>3, Apart DEF SwapCommitFails, Goto
    <2>12. CASE Fail(r)
      <3>1. SUFFICES ASSUME row' = "there", NEW x \in saved' \ late'
                       PROVE  Kept(x)' /\ \A q \in Rebuilds : pc'[q] = "wait" => By(x) \in backups'
        OBVIOUS
      <3>2. row = "there"
        BY <2>12, <3>1 DEF Fail
      <3>3. x \in saved \ late => Kept(x) /\ \A q \in Rebuilds : pc[q] = "wait" => By(x) \in backups
        BY <3>2
      <3> QED BY <1>0, <2>0, <2>12, <3>1, <3>2, <3>3, Apart DEF Fail, Goto
    <2>13. CASE End(r)
      <3>1. SUFFICES ASSUME row' = "there", NEW x \in saved' \ late'
                       PROVE  Kept(x)' /\ \A q \in Rebuilds : pc'[q] = "wait" => By(x) \in backups'
        OBVIOUS
      <3>2. row = "there"
        BY <2>13, <3>1 DEF End
      <3>3. x \in saved \ late => Kept(x) /\ \A q \in Rebuilds : pc[q] = "wait" => By(x) \in backups
        BY <3>2
      <3> QED BY <1>0, <2>0, <2>13, <3>1, <3>2, <3>3, Apart DEF End, Goto
    <2>14. CASE CrashInSwap(r)
      <3>1. \A q \in Rebuilds : pc'[q] # "wait"
        BY <1>0, <2>0, <2>14, KillsAll, Apart DEF CrashInSwap
      <3>2. /\ row = "there" /\ pc[r] = "wait"
            /\ backups' = backups /\ saved' = saved /\ late' = late
        BY <2>14 DEF CrashInSwap, CrashWith
      <3> QED BY <2>0, <3>1, <3>2
    <2> QED BY <1>1, <2>1, <2>2, <2>3, <2>4, <2>5, <2>6, <2>7, <2>8, <2>9, <2>10, <2>11, <2>12, <2>13, <2>14 DEF RebuildStep
  <1>2. ASSUME NEW v \in Reviews, See(v) \/ Put(v) \/ ReviewStep(v) \/ CrashInWrite(v) PROVE Safe'
    <2>0. v \in Writers /\ v \notin Rebuilds BY WritersAssumption DEF Writers
    <2>1. CASE See(v)
      <3>1. SUFFICES ASSUME row' = "there", NEW x \in saved' \ late'
                       PROVE  Kept(x)' /\ \A q \in Rebuilds : pc'[q] = "wait" => By(x) \in backups'
        OBVIOUS
      <3>2. row = "there"
        BY <2>1, <3>1 DEF See
      <3>3. x \in saved \ late => Kept(x) /\ \A q \in Rebuilds : pc[q] = "wait" => By(x) \in backups
        BY <3>2
      <3> QED BY <1>0, <2>0, <2>1, <3>1, <3>2, <3>3, Apart DEF See, Goto
    <2>2. CASE Put(v)
      <3>1. SUFFICES ASSUME row' = "there", NEW x \in saved' \ late'
                       PROVE  Kept(x)' /\ \A q \in Rebuilds : pc'[q] = "wait" => By(x) \in backups'
        OBVIOUS
      <3>2. row = "there"
        BY <2>2, <3>1 DEF Put
      <3>3. x \in saved \ late => Kept(x) /\ \A q \in Rebuilds : pc[q] = "wait" => By(x) \in backups
        BY <3>2
      <3> QED BY <1>0, <2>0, <2>2, <3>1, <3>2, <3>3, Apart DEF Put, Goto
    <2>3. CASE Write(v)
      <3>1. files \in backups /\ files' = By(v) /\ backups' = backups /\ row' = row /\ saved' = saved \cup {v}
        BY <2>3 DEF Write, Guarded
      <3>2. \A q \in Rebuilds : pc'[q] = pc[q]
        BY <1>0, <2>0, <2>3, Apart DEF Write, Goto
      <3>3. late \subseteq late' /\ ((\E q \in Rebuilds : pc[q] = "wait") => v \in late')
        BY <2>3 DEF Write
      <3>4. ASSUME row = "there", NEW x \in saved' \ late' PROVE Kept(x)' /\ \A q \in Rebuilds : pc'[q] = "wait" => By(x) \in backups'
        <4>1. CASE x = v BY <4>1, <3>1, <3>2, <3>3, <3>4
        <4>2. CASE x # v
          <5>1. x \in saved \ late BY <4>2, <3>1, <3>3
          <5> QED BY <5>1, <3>1, <3>2, <3>4
        <4> QED BY <4>1, <4>2
      <3> QED BY <3>1, <3>4
    <2>4. CASE WriteFails(v)
      <3>1. SUFFICES ASSUME row' = "there", NEW x \in saved' \ late'
                       PROVE  Kept(x)' /\ \A q \in Rebuilds : pc'[q] = "wait" => By(x) \in backups'
        OBVIOUS
      <3>2. row = "there"
        BY <2>4, <3>1 DEF WriteFails
      <3>3. x \in saved \ late => Kept(x) /\ \A q \in Rebuilds : pc[q] = "wait" => By(x) \in backups
        BY <3>2
      <3> QED BY <1>0, <2>0, <2>4, <3>1, <3>2, <3>3, Apart DEF WriteFails, Goto
    <2>5. CASE ReviewCommit(v)
      <3>1. SUFFICES ASSUME row' = "there", NEW x \in saved' \ late'
                       PROVE  Kept(x)' /\ \A q \in Rebuilds : pc'[q] = "wait" => By(x) \in backups'
        OBVIOUS
      <3>2. row = "there"
        BY <2>5, <3>1 DEF ReviewCommit
      <3>3. x \in saved \ late => Kept(x) /\ \A q \in Rebuilds : pc[q] = "wait" => By(x) \in backups
        BY <3>2
      <3> QED BY <1>0, <2>0, <2>5, <3>1, <3>2, <3>3, Apart DEF ReviewCommit, Goto
    <2>6. CASE ReviewCommitFails(v)
      <3>1. SUFFICES ASSUME row' = "there", NEW x \in saved' \ late'
                       PROVE  Kept(x)' /\ \A q \in Rebuilds : pc'[q] = "wait" => By(x) \in backups'
        OBVIOUS
      <3>2. row = "there"
        BY <2>6, <3>1 DEF ReviewCommitFails
      <3>3. x \in saved \ late => Kept(x) /\ \A q \in Rebuilds : pc[q] = "wait" => By(x) \in backups
        BY <3>2
      <3> QED BY <1>0, <2>0, <2>6, <3>1, <3>2, <3>3, Apart DEF ReviewCommitFails, Goto
    <2>7. CASE Reconcile(v)
      <3>1. SUFFICES ASSUME row' = "there", NEW x \in saved' \ late'
                       PROVE  Kept(x)' /\ \A q \in Rebuilds : pc'[q] = "wait" => By(x) \in backups'
        OBVIOUS
      <3>2. row = "there"
        BY <2>7, <3>1 DEF Reconcile
      <3>3. x \in saved \ late => Kept(x) /\ \A q \in Rebuilds : pc[q] = "wait" => By(x) \in backups
        BY <3>2
      <3> QED BY <1>0, <2>0, <2>7, <3>1, <3>2, <3>3, Apart DEF Reconcile, Goto
    <2>8. CASE ReconcileFails(v)
      <3>1. SUFFICES ASSUME row' = "there", NEW x \in saved' \ late'
                       PROVE  Kept(x)' /\ \A q \in Rebuilds : pc'[q] = "wait" => By(x) \in backups'
        OBVIOUS
      <3>2. row = "there"
        BY <2>8, <3>1 DEF ReconcileFails
      <3>3. x \in saved \ late => Kept(x) /\ \A q \in Rebuilds : pc[q] = "wait" => By(x) \in backups
        BY <3>2
      <3> QED BY <1>0, <2>0, <2>8, <3>1, <3>2, <3>3, Apart DEF ReconcileFails, Goto
    <2>9. CASE CrashInWrite(v)
      <3>1. \A q \in Rebuilds : pc'[q] # "wait"
        BY <1>0, <2>0, <2>9, KillsAll, Apart DEF CrashInWrite
      <3>2. /\ files \in backups /\ backups' = backups /\ saved' = saved /\ late' = late
            /\ row' = "there" => row = "there"
        BY <2>9 DEF CrashInWrite, CrashWith, Guarded
      <3> QED BY <2>0, <3>1, <3>2
    <2> QED BY <1>2, <2>1, <2>2, <2>3, <2>4, <2>5, <2>6, <2>7, <2>8, <2>9 DEF ReviewStep
  <1>3. CASE Overrun BY <1>0, <1>3 DEF Overrun
  <1>4. CASE DeleteRow BY <1>0, <1>4 DEF DeleteRow
  <1>5. CASE RemoveTree BY <1>0, <1>5 DEF RemoveTree
  <1>6. CASE Crash
    <2>1. \A q \in Rebuilds : pc'[q] # "wait"
      BY <1>0, <1>6, KillsAll, Apart DEF Crash
    <2>2. /\ files' = files /\ backups' = backups /\ saved' = saved /\ late' = late
          /\ row' = "there" => row = "there"
      BY <1>6 DEF Crash, CrashWith
    <2> QED BY <2>1, <2>2
  <1>7. CASE UNCHANGED vars BY <1>0, <1>7
  <1> QED BY <1>1, <1>2, <1>3, <1>4, <1>5, <1>6, <1>7 DEF Next

(***************************************************************************)
(* A review that was saved is current or in a backup, whatever rebuilds,   *)
(* other reviews, faults of the disk and kills follow, unless it was put   *)
(* in place while a rebuild waited for the row with its backup made.       *)
(***************************************************************************)
THEOREM ReviewsAreKept == Spec => []ReviewKept
  <1>1. Init => TypeOK /\ Guarded /\ Safe
    <2>1. Init => Guarded BY Apart DEF Init, Guarded
    <2>2. Init => Safe BY DEF Init, Safe
    <2> QED BY InitTyped, <2>1, <2>2
  <1>2. Safe => ReviewKept
    BY DEF Safe, ReviewKept
  <1> QED BY <1>1, <1>2, NextTyped, NextGuarded, NextSafe, PTL DEF Spec

-----------------------------------------------------------------------------
(* One rebuild at a time *)

\* Whoever runs owns the lock, and it is alive, until the job is deleted or a lock
\* runs out.
Owned ==
  overruns = 0 /\ row = "there" =>
    \A r \in Running : lock.by = r /\ LockAlive

\* Whoever runs keeps the lock, or has lost the job.
LEMMA NextOwned == TypeOK /\ Owned /\ [Next]_vars => Owned'
  <1> SUFFICES ASSUME TypeOK /\ Owned, [Next]_vars PROVE Owned'
    OBVIOUS
  <1> USE DEF Owned, LockAlive
  <1>0. /\ pc \in [Writers -> Steps] /\ Nobody \notin Writers
        /\ \A w \in Writers : held = w <=> pc[w] \in {"write", "commit"}
    BY Apart DEF TypeOK
  <1>1. ASSUME NEW r \in Rebuilds, Request(r) \/ RebuildStep(r) \/ CrashInSwap(r) PROVE Owned'
    <2>0. r \in Writers /\ r \notin Reviews BY WritersAssumption DEF Writers
    <2>1. CASE Request(r)
      <3>1. SUFFICES ASSUME overruns' = 0, row' = "there", NEW x \in Running' PROVE lock'.by = x /\ lock'.live
        OBVIOUS
      <3>2. overruns = 0 /\ row = "there"
        BY <2>1, <3>1 DEF Request, Fault, DbFault, DiskFault
      <3>3. x \in Rebuilds /\ pc'[x] \in {"note", "compute", "wait", "commit", "fail", "end"}
        BY <3>1 DEF Running
      <3>4. pc[x] \in {"note", "compute", "wait", "commit", "fail", "end"} => lock.by = x /\ lock.live
        BY <3>2, <3>3 DEF Running
      <3> QED BY <1>0, <2>0, <2>1, <3>2, <3>3, <3>4, Apart DEF Request, Goto
    <2>2. CASE Start(r)
      <3>1. SUFFICES ASSUME overruns' = 0, row' = "there", NEW x \in Running' PROVE lock'.by = x /\ lock'.live
        OBVIOUS
      <3>2. overruns = 0 /\ row = "there"
        BY <2>2, <3>1 DEF Start, Fault, DbFault, DiskFault
      <3>3. x \in Rebuilds /\ pc'[x] \in {"note", "compute", "wait", "commit", "fail", "end"}
        BY <3>1 DEF Running
      <3>4. pc[x] \in {"note", "compute", "wait", "commit", "fail", "end"} => lock.by = x /\ lock.live
        BY <3>2, <3>3 DEF Running
      <3> QED BY <1>0, <2>0, <2>2, <3>2, <3>3, <3>4, Apart DEF Start, Goto
    <2>3. CASE Acquire(r)
      <3>1. SUFFICES ASSUME overruns' = 0, row' = "there", NEW x \in Running' PROVE lock'.by = x /\ lock'.live
        OBVIOUS
      <3>2. overruns = 0 /\ row = "there"
        BY <2>3, <3>1 DEF Acquire, Fault, DbFault, DiskFault
      <3>3. x \in Rebuilds /\ pc'[x] \in {"note", "compute", "wait", "commit", "fail", "end"}
        BY <3>1 DEF Running
      <3>4. pc[x] \in {"note", "compute", "wait", "commit", "fail", "end"} => lock.by = x /\ lock.live
        BY <3>2, <3>3 DEF Running
      <3>5. CASE LockAlive \/ tree = "gone"
        BY <1>0, <2>0, <2>3, <3>3, <3>4, <3>5, Apart DEF Acquire, Goto
      <3>6. CASE ~LockAlive /\ tree # "gone"
        <4>1. lock' = [by |-> r, live |-> TRUE] BY <2>3, <3>6 DEF Acquire
        <4>2. x = r BY <1>0, <2>0, <2>3, <3>3, <3>4, <3>6, Apart DEF Acquire, Goto
        <4> QED BY <4>1, <4>2
      <3> QED BY <3>5, <3>6
    <2>4. CASE SetNote(r)
      <3>1. SUFFICES ASSUME overruns' = 0, row' = "there", NEW x \in Running' PROVE lock'.by = x /\ lock'.live
        OBVIOUS
      <3>2. overruns = 0 /\ row = "there"
        BY <2>4, <3>1 DEF SetNote, Fault, DbFault, DiskFault
      <3>3. x \in Rebuilds /\ pc'[x] \in {"note", "compute", "wait", "commit", "fail", "end"}
        BY <3>1 DEF Running
      <3>4. pc[x] \in {"note", "compute", "wait", "commit", "fail", "end"} => lock.by = x /\ lock.live
        BY <3>2, <3>3 DEF Running
      <3> QED BY <1>0, <2>0, <2>4, <3>2, <3>3, <3>4, Apart DEF SetNote, Goto
    <2>5. CASE Backup(r)
      <3>1. SUFFICES ASSUME overruns' = 0, row' = "there", NEW x \in Running' PROVE lock'.by = x /\ lock'.live
        OBVIOUS
      <3>2. overruns = 0 /\ row = "there"
        BY <2>5, <3>1 DEF Backup, Fault, DbFault, DiskFault
      <3>3. x \in Rebuilds /\ pc'[x] \in {"note", "compute", "wait", "commit", "fail", "end"}
        BY <3>1 DEF Running
      <3>4. pc[x] \in {"note", "compute", "wait", "commit", "fail", "end"} => lock.by = x /\ lock.live
        BY <3>2, <3>3 DEF Running
      <3> QED BY <1>0, <2>0, <2>5, <3>2, <3>3, <3>4, Apart DEF Backup, Goto
    <2>6. CASE ComputeFails(r)
      <3>1. SUFFICES ASSUME overruns' = 0, row' = "there", NEW x \in Running' PROVE lock'.by = x /\ lock'.live
        OBVIOUS
      <3>2. overruns = 0 /\ row = "there"
        BY <2>6, <3>1 DEF ComputeFails, Fault, DbFault, DiskFault
      <3>3. x \in Rebuilds /\ pc'[x] \in {"note", "compute", "wait", "commit", "fail", "end"}
        BY <3>1 DEF Running
      <3>4. pc[x] \in {"note", "compute", "wait", "commit", "fail", "end"} => lock.by = x /\ lock.live
        BY <3>2, <3>3 DEF Running
      <3> QED BY <1>0, <2>0, <2>6, <3>2, <3>3, <3>4, Apart DEF ComputeFails, Goto
    <2>7. CASE Swap(r)
      <3>1. SUFFICES ASSUME overruns' = 0, row' = "there", NEW x \in Running' PROVE lock'.by = x /\ lock'.live
        OBVIOUS
      <3>2. overruns = 0 /\ row = "there"
        BY <2>7, <3>1 DEF Swap, Fault, DbFault, DiskFault
      <3>3. x \in Rebuilds /\ pc'[x] \in {"note", "compute", "wait", "commit", "fail", "end"}
        BY <3>1 DEF Running
      <3>4. pc[x] \in {"note", "compute", "wait", "commit", "fail", "end"} => lock.by = x /\ lock.live
        BY <3>2, <3>3 DEF Running
      <3> QED BY <1>0, <2>0, <2>7, <3>2, <3>3, <3>4, Apart DEF Swap, Goto
    <2>8. CASE SwapRefused(r)
      <3>1. SUFFICES ASSUME overruns' = 0, row' = "there", NEW x \in Running' PROVE lock'.by = x /\ lock'.live
        OBVIOUS
      <3>2. overruns = 0 /\ row = "there"
        BY <2>8, <3>1 DEF SwapRefused, Fault, DbFault, DiskFault
      <3>3. x \in Rebuilds /\ pc'[x] \in {"note", "compute", "wait", "commit", "fail", "end"}
        BY <3>1 DEF Running
      <3>4. pc[x] \in {"note", "compute", "wait", "commit", "fail", "end"} => lock.by = x /\ lock.live
        BY <3>2, <3>3 DEF Running
      <3> QED BY <1>0, <2>0, <2>8, <3>2, <3>3, <3>4, Apart DEF SwapRefused, Goto
    <2>9. CASE SwapBreaks(r)
      <3>1. SUFFICES ASSUME overruns' = 0, row' = "there", NEW x \in Running' PROVE lock'.by = x /\ lock'.live
        OBVIOUS
      <3>2. overruns = 0 /\ row = "there"
        BY <2>9, <3>1 DEF SwapBreaks, Fault, DbFault, DiskFault
      <3>3. x \in Rebuilds /\ pc'[x] \in {"note", "compute", "wait", "commit", "fail", "end"}
        BY <3>1 DEF Running
      <3>4. pc[x] \in {"note", "compute", "wait", "commit", "fail", "end"} => lock.by = x /\ lock.live
        BY <3>2, <3>3 DEF Running
      <3> QED BY <1>0, <2>0, <2>9, <3>2, <3>3, <3>4, Apart DEF SwapBreaks, Goto
    <2>10. CASE SwapCommit(r)
      <3>1. SUFFICES ASSUME overruns' = 0, row' = "there", NEW x \in Running' PROVE lock'.by = x /\ lock'.live
        OBVIOUS
      <3>2. overruns = 0 /\ row = "there"
        BY <2>10, <3>1 DEF SwapCommit, Fault, DbFault, DiskFault
      <3>3. x \in Rebuilds /\ pc'[x] \in {"note", "compute", "wait", "commit", "fail", "end"}
        BY <3>1 DEF Running
      <3>4. pc[x] \in {"note", "compute", "wait", "commit", "fail", "end"} => lock.by = x /\ lock.live
        BY <3>2, <3>3 DEF Running
      <3> QED BY <1>0, <2>0, <2>10, <3>2, <3>3, <3>4, Apart DEF SwapCommit, Goto
    <2>11. CASE SwapCommitFails(r)
      <3>1. SUFFICES ASSUME overruns' = 0, row' = "there", NEW x \in Running' PROVE lock'.by = x /\ lock'.live
        OBVIOUS
      <3>2. overruns = 0 /\ row = "there"
        BY <2>11, <3>1 DEF SwapCommitFails, Fault, DbFault, DiskFault
      <3>3. x \in Rebuilds /\ pc'[x] \in {"note", "compute", "wait", "commit", "fail", "end"}
        BY <3>1 DEF Running
      <3>4. pc[x] \in {"note", "compute", "wait", "commit", "fail", "end"} => lock.by = x /\ lock.live
        BY <3>2, <3>3 DEF Running
      <3> QED BY <1>0, <2>0, <2>11, <3>2, <3>3, <3>4, Apart DEF SwapCommitFails, Goto
    <2>12. CASE Fail(r)
      <3>1. SUFFICES ASSUME overruns' = 0, row' = "there", NEW x \in Running' PROVE lock'.by = x /\ lock'.live
        OBVIOUS
      <3>2. overruns = 0 /\ row = "there"
        BY <2>12, <3>1 DEF Fail, Fault, DbFault, DiskFault
      <3>3. x \in Rebuilds /\ pc'[x] \in {"note", "compute", "wait", "commit", "fail", "end"}
        BY <3>1 DEF Running
      <3>4. pc[x] \in {"note", "compute", "wait", "commit", "fail", "end"} => lock.by = x /\ lock.live
        BY <3>2, <3>3 DEF Running
      <3> QED BY <1>0, <2>0, <2>12, <3>2, <3>3, <3>4, Apart DEF Fail, Goto
    <2>13. CASE End(r)
      <3>1. ASSUME overruns' = 0, row' = "there", NEW x \in Running' PROVE FALSE
        <4>1. overruns = 0 /\ row = "there" /\ x \in Rebuilds /\ x # r /\ pc'[x] = pc[x]
          BY <1>0, <2>0, <2>13, <3>1, Apart DEF End, Goto, Running
        <4>2. x \in Running /\ r \in Running
          BY <2>0, <2>13, <3>1, <4>1 DEF End, Running
        <4> QED BY <4>1, <4>2
      <3> QED BY <3>1
    <2>14. CASE CrashInSwap(r)
      <3>1. Running' = {}
        BY <1>0, <2>0, <2>14, KillsAll, Apart DEF CrashInSwap, Running
      <3> QED BY <3>1
    <2> QED BY <1>1, <2>1, <2>2, <2>3, <2>4, <2>5, <2>6, <2>7, <2>8, <2>9, <2>10, <2>11, <2>12, <2>13, <2>14 DEF RebuildStep
  <1>2. ASSUME NEW v \in Reviews, See(v) \/ Put(v) \/ ReviewStep(v) \/ CrashInWrite(v) PROVE Owned'
    <2>0. v \in Writers /\ v \notin Rebuilds BY WritersAssumption DEF Writers
    <2>1. CASE See(v)
      <3>1. SUFFICES ASSUME overruns' = 0, row' = "there", NEW x \in Running' PROVE lock'.by = x /\ lock'.live
        OBVIOUS
      <3>2. overruns = 0 /\ row = "there"
        BY <2>1, <3>1 DEF See, Fault, DbFault, DiskFault
      <3>3. x \in Rebuilds /\ pc'[x] \in {"note", "compute", "wait", "commit", "fail", "end"}
        BY <3>1 DEF Running
      <3>4. pc[x] \in {"note", "compute", "wait", "commit", "fail", "end"} => lock.by = x /\ lock.live
        BY <3>2, <3>3 DEF Running
      <3> QED BY <1>0, <2>0, <2>1, <3>2, <3>3, <3>4, Apart DEF See, Goto
    <2>2. CASE Put(v)
      <3>1. SUFFICES ASSUME overruns' = 0, row' = "there", NEW x \in Running' PROVE lock'.by = x /\ lock'.live
        OBVIOUS
      <3>2. overruns = 0 /\ row = "there"
        BY <2>2, <3>1 DEF Put, Fault, DbFault, DiskFault
      <3>3. x \in Rebuilds /\ pc'[x] \in {"note", "compute", "wait", "commit", "fail", "end"}
        BY <3>1 DEF Running
      <3>4. pc[x] \in {"note", "compute", "wait", "commit", "fail", "end"} => lock.by = x /\ lock.live
        BY <3>2, <3>3 DEF Running
      <3> QED BY <1>0, <2>0, <2>2, <3>2, <3>3, <3>4, Apart DEF Put, Goto
    <2>3. CASE Write(v)
      <3>1. SUFFICES ASSUME overruns' = 0, row' = "there", NEW x \in Running' PROVE lock'.by = x /\ lock'.live
        OBVIOUS
      <3>2. overruns = 0 /\ row = "there"
        BY <2>3, <3>1 DEF Write, Fault, DbFault, DiskFault
      <3>3. x \in Rebuilds /\ pc'[x] \in {"note", "compute", "wait", "commit", "fail", "end"}
        BY <3>1 DEF Running
      <3>4. pc[x] \in {"note", "compute", "wait", "commit", "fail", "end"} => lock.by = x /\ lock.live
        BY <3>2, <3>3 DEF Running
      <3> QED BY <1>0, <2>0, <2>3, <3>2, <3>3, <3>4, Apart DEF Write, Goto
    <2>4. CASE WriteFails(v)
      <3>1. SUFFICES ASSUME overruns' = 0, row' = "there", NEW x \in Running' PROVE lock'.by = x /\ lock'.live
        OBVIOUS
      <3>2. overruns = 0 /\ row = "there"
        BY <2>4, <3>1 DEF WriteFails, Fault, DbFault, DiskFault
      <3>3. x \in Rebuilds /\ pc'[x] \in {"note", "compute", "wait", "commit", "fail", "end"}
        BY <3>1 DEF Running
      <3>4. pc[x] \in {"note", "compute", "wait", "commit", "fail", "end"} => lock.by = x /\ lock.live
        BY <3>2, <3>3 DEF Running
      <3> QED BY <1>0, <2>0, <2>4, <3>2, <3>3, <3>4, Apart DEF WriteFails, Goto
    <2>5. CASE ReviewCommit(v)
      <3>1. SUFFICES ASSUME overruns' = 0, row' = "there", NEW x \in Running' PROVE lock'.by = x /\ lock'.live
        OBVIOUS
      <3>2. overruns = 0 /\ row = "there"
        BY <2>5, <3>1 DEF ReviewCommit, Fault, DbFault, DiskFault
      <3>3. x \in Rebuilds /\ pc'[x] \in {"note", "compute", "wait", "commit", "fail", "end"}
        BY <3>1 DEF Running
      <3>4. pc[x] \in {"note", "compute", "wait", "commit", "fail", "end"} => lock.by = x /\ lock.live
        BY <3>2, <3>3 DEF Running
      <3> QED BY <1>0, <2>0, <2>5, <3>2, <3>3, <3>4, Apart DEF ReviewCommit, Goto
    <2>6. CASE ReviewCommitFails(v)
      <3>1. SUFFICES ASSUME overruns' = 0, row' = "there", NEW x \in Running' PROVE lock'.by = x /\ lock'.live
        OBVIOUS
      <3>2. overruns = 0 /\ row = "there"
        BY <2>6, <3>1 DEF ReviewCommitFails, Fault, DbFault, DiskFault
      <3>3. x \in Rebuilds /\ pc'[x] \in {"note", "compute", "wait", "commit", "fail", "end"}
        BY <3>1 DEF Running
      <3>4. pc[x] \in {"note", "compute", "wait", "commit", "fail", "end"} => lock.by = x /\ lock.live
        BY <3>2, <3>3 DEF Running
      <3> QED BY <1>0, <2>0, <2>6, <3>2, <3>3, <3>4, Apart DEF ReviewCommitFails, Goto
    <2>7. CASE Reconcile(v)
      <3>1. SUFFICES ASSUME overruns' = 0, row' = "there", NEW x \in Running' PROVE lock'.by = x /\ lock'.live
        OBVIOUS
      <3>2. overruns = 0 /\ row = "there"
        BY <2>7, <3>1 DEF Reconcile, Fault, DbFault, DiskFault
      <3>3. x \in Rebuilds /\ pc'[x] \in {"note", "compute", "wait", "commit", "fail", "end"}
        BY <3>1 DEF Running
      <3>4. pc[x] \in {"note", "compute", "wait", "commit", "fail", "end"} => lock.by = x /\ lock.live
        BY <3>2, <3>3 DEF Running
      <3> QED BY <1>0, <2>0, <2>7, <3>2, <3>3, <3>4, Apart DEF Reconcile, Goto
    <2>8. CASE ReconcileFails(v)
      <3>1. SUFFICES ASSUME overruns' = 0, row' = "there", NEW x \in Running' PROVE lock'.by = x /\ lock'.live
        OBVIOUS
      <3>2. overruns = 0 /\ row = "there"
        BY <2>8, <3>1 DEF ReconcileFails, Fault, DbFault, DiskFault
      <3>3. x \in Rebuilds /\ pc'[x] \in {"note", "compute", "wait", "commit", "fail", "end"}
        BY <3>1 DEF Running
      <3>4. pc[x] \in {"note", "compute", "wait", "commit", "fail", "end"} => lock.by = x /\ lock.live
        BY <3>2, <3>3 DEF Running
      <3> QED BY <1>0, <2>0, <2>8, <3>2, <3>3, <3>4, Apart DEF ReconcileFails, Goto
    <2>9. CASE CrashInWrite(v)
      <3>1. Running' = {}
        BY <1>0, <2>0, <2>9, KillsAll, Apart DEF CrashInWrite, Running
      <3> QED BY <3>1
    <2> QED BY <1>2, <2>1, <2>2, <2>3, <2>4, <2>5, <2>6, <2>7, <2>8, <2>9 DEF ReviewStep
  <1>3. CASE Overrun
    BY <1>0, <1>3, BoundsAssumption DEF Overrun, TypeOK
  <1>4. CASE DeleteRow
    BY <1>4 DEF DeleteRow
  <1>5. CASE RemoveTree
    BY <1>5 DEF RemoveTree
  <1>6. CASE Crash
    <2>1. Running' = {}
      BY <1>0, <1>6, KillsAll, Apart DEF Crash, Running
    <2> QED BY <2>1
  <1>7. CASE UNCHANGED vars BY <1>7 DEF Running
  <1> QED BY <1>1, <1>2, <1>3, <1>4, <1>5, <1>6, <1>7 DEF Next

(***************************************************************************)
(* As long as no lock runs out, at most one rebuild works on a job that is *)
(* there, however requests, kills and restarts interleave.                 *)
(***************************************************************************)
THEOREM RebuildsExclude == Spec => []OneRebuild
  <1>1. Init => Owned
    BY Apart DEF Init, Owned, Running
  <1>2. Owned => OneRebuild
    <2> SUFFICES ASSUME Owned, overruns = 0, row = "there" PROVE Cardinality(Running) <= 1
      BY DEF OneRebuild
    <2>1. Running \subseteq {lock.by}
      BY DEF Owned
    <2>2. IsFiniteSet({lock.by}) /\ Cardinality({lock.by}) = 1
      BY FS_Singleton
    <2> QED BY <2>1, <2>2, FS_Subset
  <1> QED BY <1>1, <1>2, InitTyped, NextTyped, NextOwned, PTL DEF Spec

-----------------------------------------------------------------------------
(* The rows and the files *)

\* When nobody is about to commit, the rows have the sizes of the files, or the
\* review whose files are there is about to compare and correct them.
Settled ==
  row = "there" /\ ~unsettled /\ (\A w \in Writers : pc[w] # "commit")
  => \/ sizes = RowsOf(files)
     \/ \E v \in Reviews : pc[v] = "reconcile" /\ files = By(v)

\* Every step leaves rows that describe the files, or someone who will correct them.
LEMMA NextSettled == TypeOK /\ Guarded /\ Settled /\ [Next]_vars => Settled'
  <1> SUFFICES ASSUME TypeOK /\ Guarded /\ Settled, [Next]_vars PROVE Settled'
    OBVIOUS
  <1>0. /\ pc \in [Writers -> Steps] /\ Nobody \notin Writers
        /\ \A w \in Writers : held = w <=> pc[w] \in {"write", "commit"}
    BY Apart DEF TypeOK
  <1>1. ASSUME NEW r \in Rebuilds, Request(r) \/ RebuildStep(r) \/ CrashInSwap(r) PROVE Settled'
    <2>0. r \in Writers /\ r \notin Reviews BY WritersAssumption DEF Writers
    <2>1. CASE Request(r)
      <3>1. SUFFICES ASSUME row' = "there", ~unsettled', \A w \in Writers : pc'[w] # "commit"
                       PROVE  sizes' = RowsOf(files') \/ \E u \in Reviews : pc'[u] = "reconcile" /\ files' = By(u)
        BY DEF Settled, RowsOf
      <3>2. row = "there" /\ ~unsettled /\ sizes' = sizes /\ files' = files
        BY <2>1, <3>1 DEF Request
      <3>3. pc[r] \notin {"commit", "reconcile"} /\ \A w \in Writers : w # r => pc'[w] = pc[w]
        BY <1>0, <2>0, <2>1 DEF Request, Goto
      <3>4. \A w \in Writers : pc[w] # "commit"
        BY <3>1, <3>3
      <3>5. sizes = RowsOf(files) \/ \E u \in Reviews : pc[u] = "reconcile" /\ files = By(u)
        BY <3>2, <3>4 DEF Settled, RowsOf
      <3> QED BY <3>2, <3>3, <3>5, <2>0, Apart DEF RowsOf
    <2>2. CASE Start(r)
      <3>1. SUFFICES ASSUME row' = "there", ~unsettled', \A w \in Writers : pc'[w] # "commit"
                       PROVE  sizes' = RowsOf(files') \/ \E u \in Reviews : pc'[u] = "reconcile" /\ files' = By(u)
        BY DEF Settled, RowsOf
      <3>2. row = "there" /\ ~unsettled /\ sizes' = sizes /\ files' = files
        BY <2>2, <3>1 DEF Start
      <3>3. pc[r] \notin {"commit", "reconcile"} /\ \A w \in Writers : w # r => pc'[w] = pc[w]
        BY <1>0, <2>0, <2>2 DEF Start, Goto
      <3>4. \A w \in Writers : pc[w] # "commit"
        BY <3>1, <3>3
      <3>5. sizes = RowsOf(files) \/ \E u \in Reviews : pc[u] = "reconcile" /\ files = By(u)
        BY <3>2, <3>4 DEF Settled, RowsOf
      <3> QED BY <3>2, <3>3, <3>5, <2>0, Apart DEF RowsOf
    <2>3. CASE Acquire(r)
      <3>1. SUFFICES ASSUME row' = "there", ~unsettled', \A w \in Writers : pc'[w] # "commit"
                       PROVE  sizes' = RowsOf(files') \/ \E u \in Reviews : pc'[u] = "reconcile" /\ files' = By(u)
        BY DEF Settled, RowsOf
      <3>2. row = "there" /\ ~unsettled /\ sizes' = sizes /\ files' = files
        BY <2>3, <3>1 DEF Acquire
      <3>3. pc[r] \notin {"commit", "reconcile"} /\ \A w \in Writers : w # r => pc'[w] = pc[w]
        BY <1>0, <2>0, <2>3 DEF Acquire, Goto
      <3>4. \A w \in Writers : pc[w] # "commit"
        BY <3>1, <3>3
      <3>5. sizes = RowsOf(files) \/ \E u \in Reviews : pc[u] = "reconcile" /\ files = By(u)
        BY <3>2, <3>4 DEF Settled, RowsOf
      <3> QED BY <3>2, <3>3, <3>5, <2>0, Apart DEF RowsOf
    <2>4. CASE SetNote(r)
      <3>1. SUFFICES ASSUME row' = "there", ~unsettled', \A w \in Writers : pc'[w] # "commit"
                       PROVE  sizes' = RowsOf(files') \/ \E u \in Reviews : pc'[u] = "reconcile" /\ files' = By(u)
        BY DEF Settled, RowsOf
      <3>2. row = "there" /\ ~unsettled /\ sizes' = sizes /\ files' = files
        BY <2>4, <3>1 DEF SetNote
      <3>3. pc[r] \notin {"commit", "reconcile"} /\ \A w \in Writers : w # r => pc'[w] = pc[w]
        BY <1>0, <2>0, <2>4 DEF SetNote, Goto
      <3>4. \A w \in Writers : pc[w] # "commit"
        BY <3>1, <3>3
      <3>5. sizes = RowsOf(files) \/ \E u \in Reviews : pc[u] = "reconcile" /\ files = By(u)
        BY <3>2, <3>4 DEF Settled, RowsOf
      <3> QED BY <3>2, <3>3, <3>5, <2>0, Apart DEF RowsOf
    <2>5. CASE Backup(r)
      <3>1. SUFFICES ASSUME row' = "there", ~unsettled', \A w \in Writers : pc'[w] # "commit"
                       PROVE  sizes' = RowsOf(files') \/ \E u \in Reviews : pc'[u] = "reconcile" /\ files' = By(u)
        BY DEF Settled, RowsOf
      <3>2. row = "there" /\ ~unsettled /\ sizes' = sizes /\ files' = files
        BY <2>5, <3>1 DEF Backup
      <3>3. pc[r] \notin {"commit", "reconcile"} /\ \A w \in Writers : w # r => pc'[w] = pc[w]
        BY <1>0, <2>0, <2>5 DEF Backup, Goto
      <3>4. \A w \in Writers : pc[w] # "commit"
        BY <3>1, <3>3
      <3>5. sizes = RowsOf(files) \/ \E u \in Reviews : pc[u] = "reconcile" /\ files = By(u)
        BY <3>2, <3>4 DEF Settled, RowsOf
      <3> QED BY <3>2, <3>3, <3>5, <2>0, Apart DEF RowsOf
    <2>6. CASE ComputeFails(r)
      <3>1. SUFFICES ASSUME row' = "there", ~unsettled', \A w \in Writers : pc'[w] # "commit"
                       PROVE  sizes' = RowsOf(files') \/ \E u \in Reviews : pc'[u] = "reconcile" /\ files' = By(u)
        BY DEF Settled, RowsOf
      <3>2. row = "there" /\ ~unsettled /\ sizes' = sizes /\ files' = files
        BY <2>6, <3>1 DEF ComputeFails
      <3>3. pc[r] \notin {"commit", "reconcile"} /\ \A w \in Writers : w # r => pc'[w] = pc[w]
        BY <1>0, <2>0, <2>6 DEF ComputeFails, Goto
      <3>4. \A w \in Writers : pc[w] # "commit"
        BY <3>1, <3>3
      <3>5. sizes = RowsOf(files) \/ \E u \in Reviews : pc[u] = "reconcile" /\ files = By(u)
        BY <3>2, <3>4 DEF Settled, RowsOf
      <3> QED BY <3>2, <3>3, <3>5, <2>0, Apart DEF RowsOf
    <2>7. CASE Swap(r)
      <3>1. pc'[r] = "commit"
        BY <1>0, <2>0, <2>7 DEF Swap, Goto
      <3> QED BY <3>1, <2>0 DEF Settled
    <2>8. CASE SwapRefused(r)
      <3>1. SUFFICES ASSUME row' = "there", ~unsettled', \A w \in Writers : pc'[w] # "commit"
                       PROVE  sizes' = RowsOf(files') \/ \E u \in Reviews : pc'[u] = "reconcile" /\ files' = By(u)
        BY DEF Settled, RowsOf
      <3>2. row = "there" /\ ~unsettled /\ sizes' = sizes /\ files' = files
        BY <2>8, <3>1 DEF SwapRefused
      <3>3. pc[r] \notin {"commit", "reconcile"} /\ \A w \in Writers : w # r => pc'[w] = pc[w]
        BY <1>0, <2>0, <2>8 DEF SwapRefused, Goto
      <3>4. \A w \in Writers : pc[w] # "commit"
        BY <3>1, <3>3
      <3>5. sizes = RowsOf(files) \/ \E u \in Reviews : pc[u] = "reconcile" /\ files = By(u)
        BY <3>2, <3>4 DEF Settled, RowsOf
      <3> QED BY <3>2, <3>3, <3>5, <2>0, Apart DEF RowsOf
    <2>9. CASE SwapBreaks(r)
      BY <2>9 DEF SwapBreaks, Settled
    <2>10. CASE SwapCommit(r)
      BY <2>10 DEF SwapCommit, Settled, RowsOf
    <2>11. CASE SwapCommitFails(r)
      BY <2>11 DEF SwapCommitFails, Settled, RowsOf
    <2>12. CASE Fail(r)
      <3>1. SUFFICES ASSUME row' = "there", ~unsettled', \A w \in Writers : pc'[w] # "commit"
                       PROVE  sizes' = RowsOf(files') \/ \E u \in Reviews : pc'[u] = "reconcile" /\ files' = By(u)
        BY DEF Settled, RowsOf
      <3>2. row = "there" /\ ~unsettled /\ sizes' = sizes /\ files' = files
        BY <2>12, <3>1 DEF Fail
      <3>3. pc[r] \notin {"commit", "reconcile"} /\ \A w \in Writers : w # r => pc'[w] = pc[w]
        BY <1>0, <2>0, <2>12 DEF Fail, Goto
      <3>4. \A w \in Writers : pc[w] # "commit"
        BY <3>1, <3>3
      <3>5. sizes = RowsOf(files) \/ \E u \in Reviews : pc[u] = "reconcile" /\ files = By(u)
        BY <3>2, <3>4 DEF Settled, RowsOf
      <3> QED BY <3>2, <3>3, <3>5, <2>0, Apart DEF RowsOf
    <2>13. CASE End(r)
      <3>1. SUFFICES ASSUME row' = "there", ~unsettled', \A w \in Writers : pc'[w] # "commit"
                       PROVE  sizes' = RowsOf(files') \/ \E u \in Reviews : pc'[u] = "reconcile" /\ files' = By(u)
        BY DEF Settled, RowsOf
      <3>2. row = "there" /\ ~unsettled /\ sizes' = sizes /\ files' = files
        BY <2>13, <3>1 DEF End
      <3>3. pc[r] \notin {"commit", "reconcile"} /\ \A w \in Writers : w # r => pc'[w] = pc[w]
        BY <1>0, <2>0, <2>13 DEF End, Goto
      <3>4. \A w \in Writers : pc[w] # "commit"
        BY <3>1, <3>3
      <3>5. sizes = RowsOf(files) \/ \E u \in Reviews : pc[u] = "reconcile" /\ files = By(u)
        BY <3>2, <3>4 DEF Settled, RowsOf
      <3> QED BY <3>2, <3>3, <3>5, <2>0, Apart DEF RowsOf
    <2>14. CASE CrashInSwap(r)
      <3>1. CASE unsettled' BY <3>1 DEF Settled
      <3>2. CASE ~unsettled'
        <4>1. /\ ~unsettled /\ files' = files /\ held = Nobody /\ sizes' = sizes
              /\ row' = "there" => row = "there"
              /\ \A u \in Reviews : pc[u] # "reconcile"
          BY <1>0, <2>0, <2>14, <3>2 DEF CrashInSwap, CrashWith, TypeOK
        <4>2. \A w \in Writers : pc[w] # "commit"
          BY <1>0, <4>1
        <4> QED BY <4>1, <4>2 DEF Settled, RowsOf
      <3> QED BY <3>1, <3>2
    <2> QED BY <1>1, <2>1, <2>2, <2>3, <2>4, <2>5, <2>6, <2>7, <2>8, <2>9, <2>10, <2>11, <2>12, <2>13, <2>14 DEF RebuildStep
  <1>2. ASSUME NEW v \in Reviews, See(v) \/ Put(v) \/ ReviewStep(v) \/ CrashInWrite(v) PROVE Settled'
    <2>0. v \in Writers /\ v \notin Rebuilds BY WritersAssumption DEF Writers
    <2>1. CASE See(v)
      <3>1. SUFFICES ASSUME row' = "there", ~unsettled', \A w \in Writers : pc'[w] # "commit"
                       PROVE  sizes' = RowsOf(files') \/ \E u \in Reviews : pc'[u] = "reconcile" /\ files' = By(u)
        BY DEF Settled, RowsOf
      <3>2. row = "there" /\ ~unsettled /\ sizes' = sizes /\ files' = files
        BY <2>1, <3>1 DEF See
      <3>3. pc[v] \notin {"commit", "reconcile"} /\ \A w \in Writers : w # v => pc'[w] = pc[w]
        BY <1>0, <2>0, <2>1 DEF See, Goto
      <3>4. \A w \in Writers : pc[w] # "commit"
        BY <3>1, <3>3
      <3>5. sizes = RowsOf(files) \/ \E u \in Reviews : pc[u] = "reconcile" /\ files = By(u)
        BY <3>2, <3>4 DEF Settled, RowsOf
      <3> QED BY <3>2, <3>3, <3>5, <2>0, Apart DEF RowsOf
    <2>2. CASE Put(v)
      <3>1. SUFFICES ASSUME row' = "there", ~unsettled', \A w \in Writers : pc'[w] # "commit"
                       PROVE  sizes' = RowsOf(files') \/ \E u \in Reviews : pc'[u] = "reconcile" /\ files' = By(u)
        BY DEF Settled, RowsOf
      <3>2. row = "there" /\ ~unsettled /\ sizes' = sizes /\ files' = files
        BY <2>2, <3>1 DEF Put
      <3>3. pc[v] \notin {"commit", "reconcile"} /\ \A w \in Writers : w # v => pc'[w] = pc[w]
        BY <1>0, <2>0, <2>2 DEF Put, Goto
      <3>4. \A w \in Writers : pc[w] # "commit"
        BY <3>1, <3>3
      <3>5. sizes = RowsOf(files) \/ \E u \in Reviews : pc[u] = "reconcile" /\ files = By(u)
        BY <3>2, <3>4 DEF Settled, RowsOf
      <3> QED BY <3>2, <3>3, <3>5, <2>0, Apart DEF RowsOf
    <2>3. CASE Write(v)
      <3>1. pc'[v] = "commit"
        BY <1>0, <2>0, <2>3 DEF Write, Goto
      <3> QED BY <3>1, <2>0 DEF Settled
    <2>4. CASE WriteFails(v)
      <3>1. SUFFICES ASSUME row' = "there", ~unsettled', \A w \in Writers : pc'[w] # "commit"
                       PROVE  sizes' = RowsOf(files') \/ \E u \in Reviews : pc'[u] = "reconcile" /\ files' = By(u)
        BY DEF Settled, RowsOf
      <3>2. row = "there" /\ ~unsettled /\ sizes' = sizes /\ files' = files
        BY <2>4, <3>1 DEF WriteFails
      <3>3. pc[v] \notin {"commit", "reconcile"} /\ \A w \in Writers : w # v => pc'[w] = pc[w]
        BY <1>0, <2>0, <2>4 DEF WriteFails, Goto
      <3>4. \A w \in Writers : pc[w] # "commit"
        BY <3>1, <3>3
      <3>5. sizes = RowsOf(files) \/ \E u \in Reviews : pc[u] = "reconcile" /\ files = By(u)
        BY <3>2, <3>4 DEF Settled, RowsOf
      <3> QED BY <3>2, <3>3, <3>5, <2>0, Apart DEF RowsOf
    <2>5. CASE ReviewCommit(v)
      <3>1. files = By(v) /\ files' = files
        BY <2>5 DEF ReviewCommit, Guarded
      <3> QED BY <3>1, <2>5 DEF ReviewCommit, Settled, RowsOf
    <2>6. CASE ReviewCommitFails(v)
      <3>1. files = By(v) /\ files' = files
        BY <2>6 DEF ReviewCommitFails, Guarded
      <3>2. CASE unsettled' BY <3>2 DEF Settled
      <3>3. CASE ~unsettled'
        <4>1. pc' = [pc EXCEPT ![v] = "reconcile"] \/ sizes' = RowsOf(By(v))
          BY <2>6, <3>3 DEF ReviewCommitFails, Goto
        <4>2. CASE sizes' = RowsOf(By(v)) BY <4>2, <3>1 DEF Settled, RowsOf
        <4>3. CASE pc' = [pc EXCEPT ![v] = "reconcile"]
          <5>1. pc'[v] = "reconcile" BY <4>3, <1>0, <2>0
          <5> QED BY <5>1, <3>1 DEF Settled
        <4> QED BY <4>1, <4>2, <4>3
      <3> QED BY <3>2, <3>3
    <2>7. CASE Reconcile(v)
      <3>1. CASE row = "there" /\ files = By(v)
        BY <2>7, <3>1 DEF Reconcile, Settled, RowsOf
      <3>2. CASE ~(row = "there" /\ files = By(v))
        <4>1. SUFFICES ASSUME row' = "there", ~unsettled', \A w \in Writers : pc'[w] # "commit"
                       PROVE  sizes' = RowsOf(files') \/ \E u \in Reviews : pc'[u] = "reconcile" /\ files' = By(u)
          BY DEF Settled, RowsOf
        <4>2. row = "there" /\ ~unsettled /\ sizes' = sizes /\ files' = files /\ files # By(v)
          BY <2>7, <3>2, <4>1 DEF Reconcile
        <4>3. pc[v] # "commit" /\ \A w \in Writers : w # v => pc'[w] = pc[w]
          BY <1>0, <2>0, <2>7 DEF Reconcile, Goto
        <4>4. sizes = RowsOf(files) \/ \E u \in Reviews : pc[u] = "reconcile" /\ files = By(u)
          BY <4>1, <4>2, <4>3 DEF Settled, RowsOf
        <4> QED BY <4>2, <4>3, <4>4, <2>0, Apart DEF RowsOf
      <3> QED BY <3>1, <3>2
    <2>8. CASE ReconcileFails(v)
      BY <2>8 DEF ReconcileFails, Settled
    <2>9. CASE CrashInWrite(v)
      <3>1. CASE unsettled' BY <3>1 DEF Settled
      <3>2. CASE ~unsettled'
        <4>1. /\ ~unsettled /\ files' = files /\ held = Nobody /\ sizes' = sizes
              /\ row' = "there" => row = "there"
              /\ \A u \in Reviews : pc[u] # "reconcile"
          BY <1>0, <2>0, <2>9, <3>2 DEF CrashInWrite, CrashWith, TypeOK
        <4>2. \A w \in Writers : pc[w] # "commit"
          BY <1>0, <4>1
        <4> QED BY <4>1, <4>2 DEF Settled, RowsOf
      <3> QED BY <3>1, <3>2
    <2> QED BY <1>2, <2>1, <2>2, <2>3, <2>4, <2>5, <2>6, <2>7, <2>8, <2>9 DEF ReviewStep
  <1>3. CASE Overrun
    BY <1>3 DEF Overrun, Settled, RowsOf
  <1>4. CASE DeleteRow
    BY <1>4 DEF DeleteRow, Settled
  <1>5. CASE RemoveTree
    BY <1>5 DEF RemoveTree, Settled
  <1>6. CASE Crash
    <2>1. CASE unsettled' BY <2>1 DEF Settled
    <2>2. CASE ~unsettled'
      <3>1. /\ ~unsettled /\ files' = files /\ held = Nobody /\ sizes' = sizes
            /\ row' = "there" => row = "there"
            /\ \A u \in Reviews : pc[u] # "reconcile"
        BY <1>0, <1>6, <2>2 DEF Crash, CrashWith, TypeOK
      <3>2. \A w \in Writers : pc[w] # "commit"
        BY <1>0, <3>1
      <3> QED BY <3>1, <3>2 DEF Settled, RowsOf
    <2> QED BY <2>1, <2>2
  <1>7. CASE UNCHANGED vars BY <1>7 DEF Settled, RowsOf
  <1> QED BY <1>1, <1>2, <1>3, <1>4, <1>5, <1>6, <1>7 DEF Next

(***************************************************************************)
(* When nobody is writing and no failure has gone unrepaired, the artifact *)
(* rows of a job that is there have the sizes of its lyrics files, one     *)
(* unconfirmed commit of a review included.                                *)
(***************************************************************************)
THEOREM RowsAreTrue == Spec => []RowsDescribeFiles
  <1>1. Init => TypeOK /\ Guarded /\ Settled
    <2>1. Init => Guarded BY Apart DEF Init, Guarded
    <2>2. Init => Settled BY DEF Init, Settled
    <2> QED BY InitTyped, <2>1, <2>2
  <1>2. TypeOK /\ Settled => RowsDescribeFiles
    <2> SUFFICES ASSUME TypeOK, Settled, row = "there", held = Nobody, ~unsettled,
                        \A v \in Reviews : pc[v] # "reconcile"
                 PROVE  sizes = RowsOf(files)
      BY DEF RowsDescribeFiles
    <2>1. \A w \in Writers : pc[w] # "commit"
      BY Apart DEF TypeOK
    <2> QED BY <2>1 DEF Settled
  <1> QED BY <1>1, <1>2, NextTyped, NextGuarded, NextSettled, PTL DEF Spec

-----------------------------------------------------------------------------
(* The promise to the readers *)

\* Until the job is gone its metadata is there, which is written last.
Present == row # "gone" => files["meta"] # Missing

\* A torn change has each file old or new; the fourth of a swap is old.
LEMMA TornFiles ==
  ASSUME NEW new \in Revisions, NEW old \in Revisions, NEW k \in 0 .. 3,
         NEW order \in {SwapOrder, ReviewOrder}
  PROVE  /\ Partly(order, k, new, old) \in Revisions
         /\ \A n \in Names : Partly(order, k, new, old)[n] \in {new[n], old[n]}
         /\ order = SwapOrder => Partly(order, k, new, old)["meta"] = old["meta"]
  <1>1. \A n \in Names : Partly(order, k, new, old)[n] \in {new[n], old[n]}
    BY DEF Partly
  <1>2. ASSUME order = SwapOrder PROVE Partly(order, k, new, old)["meta"] = old["meta"]
    <2>1. \A i \in 1 .. k : i \in {1, 2, 3}
      OBVIOUS
    <2>2. \A i \in 1 .. k : order[i] # "meta"
      BY <2>1, <1>2 DEF SwapOrder
    <2> QED BY <2>2 DEF Partly, Names
  <1>3. Partly(order, k, new, old) \in Revisions
    BY RevisionsTyped
  <1> QED BY <1>1, <1>2, <1>3

\* What a rebuild writes is its own, absent, or the text of before.
LEMMA SwappedFiles ==
  ASSUME NEW r, NEW shape \in Shapes, NEW old \in Revisions
  PROVE  /\ \A n \in Names : Swapped(r, shape, old)[n] \in {r, Missing, old[n]}
         /\ Swapped(r, shape, old)["meta"] = r
         /\ Swapped(r, shape, old) \in Promise!Result(r, old)
  <1> DEFINE l == IF shape = "synced" THEN r ELSE Missing
             t == IF shape = "instrumental" THEN old.txt ELSE r
  <1>1. Swapped(r, shape, old) = [By(r) EXCEPT !.lrc = l, !.txt = t]
    BY DEF Swapped
  <1>2. l \in {r, Missing} /\ t \in {r, old.txt}
    OBVIOUS
  <1> HIDE DEF l, t
  <1>3. [By(r) EXCEPT !.lrc = l, !.txt = t] =
          [n \in Names |-> IF n = "lrc" THEN l ELSE IF n = "txt" THEN t ELSE r]
    BY DEF By, Names
  <1>4. \A n \in Names : Swapped(r, shape, old)[n] \in {r, Missing, old[n]}
    BY <1>1, <1>2, <1>3
  <1>5. Swapped(r, shape, old)["meta"] = r
    BY <1>1, <1>3 DEF Names
  <1>6. Swapped(r, shape, old) \in Promise!Result(r, old)
    <2>1. Promise!By(r) = By(r)
      BY DEF Promise!By, Promise!Names, By, Names
    <2>2. \E x \in {r, Missing}, y \in {r, old.txt} :
            Swapped(r, shape, old) = [Promise!By(r) EXCEPT !.lrc = x, !.txt = y]
      BY <1>1, <1>2, <2>1
    <2>3. PICK x \in {r, Missing}, y \in {r, old.txt} :
            Swapped(r, shape, old) = [Promise!By(r) EXCEPT !.lrc = x, !.txt = y]
      BY <2>2
    <2> DEFINE G(a, b) == [Promise!By(r) EXCEPT !.lrc = a, !.txt = b]
    <2>4. Promise!Result(r, old) = {G(a, b) : a \in {r, Missing}, b \in {r, old.txt}}
      BY DEF Promise!Result
    <2>5. Swapped(r, shape, old) = G(x, y)
      BY <2>3
    <2> HIDE DEF G
    <2> QED BY <2>4, <2>5
  <1> QED BY <1>4, <1>5, <1>6

\* Nothing but the removal takes the metadata.
LEMMA NextPresent == TypeOK /\ Guarded /\ Present /\ [Next]_vars => Present'
  <1> SUFFICES ASSUME TypeOK /\ Guarded /\ Present, [Next]_vars PROVE Present'
    OBVIOUS
  <1> USE DEF Present
  <1>0. /\ pc \in [Writers -> Steps] /\ Nobody \notin Writers
        /\ \A w \in Writers : held = w <=> pc[w] \in {"write", "commit"}
    BY Apart DEF TypeOK
  <1>1. ASSUME NEW r \in Rebuilds, Request(r) \/ RebuildStep(r) \/ CrashInSwap(r) PROVE Present'
    <2>0. r \in Writers /\ r \notin Reviews BY WritersAssumption DEF Writers
    <2>1. CASE Request(r)
      BY <2>1 DEF Request
    <2>2. CASE Start(r)
      BY <2>2 DEF Start
    <2>3. CASE Acquire(r)
      BY <2>3 DEF Acquire
    <2>4. CASE SetNote(r)
      BY <2>4 DEF SetNote
    <2>5. CASE Backup(r)
      BY <2>5 DEF Backup
    <2>6. CASE ComputeFails(r)
      BY <2>6 DEF ComputeFails
    <2>7. CASE Swap(r)
      <3>1. files'["meta"] # Missing
        BY <2>0, <2>7, SwappedFiles, Apart DEF Swap, TypeOK
      <3> QED BY <3>1
    <2>8. CASE SwapRefused(r)
      BY <2>8 DEF SwapRefused
    <2>9. CASE SwapBreaks(r)
      <3>1. PICK shape \in Shapes, k \in 0 .. 3 : files' = Partly(SwapOrder, k, Swapped(r, shape, files), files)
        BY <2>9 DEF SwapBreaks
      <3>2. Swapped(r, shape, files) \in Revisions /\ files \in Revisions /\ k \in 0 .. 3
        BY <2>0, <3>1, RevisionsTyped DEF TypeOK
      <3>3. files'["meta"] = files["meta"]
        BY <3>1, <3>2, TornFiles
      <3> QED BY <2>9, <3>3 DEF SwapBreaks
    <2>10. CASE SwapCommit(r)
      BY <2>10 DEF SwapCommit
    <2>11. CASE SwapCommitFails(r)
      BY <2>11 DEF SwapCommitFails
    <2>12. CASE Fail(r)
      BY <2>12 DEF Fail
    <2>13. CASE End(r)
      BY <2>13 DEF End
    <2>14. CASE CrashInSwap(r)
      <3>1. PICK shape \in Shapes, k \in 1 .. 3 : files' = Partly(SwapOrder, k, Swapped(r, shape, files), files)
        BY <2>14 DEF CrashInSwap, CrashWith
      <3>2. Swapped(r, shape, files) \in Revisions /\ files \in Revisions /\ k \in 0 .. 3
        BY <2>0, <3>1, RevisionsTyped DEF TypeOK
      <3>3. files'["meta"] = files["meta"]
        BY <3>1, <3>2, TornFiles
      <3> QED BY <2>14, <3>3 DEF CrashInSwap
    <2> QED BY <1>1, <2>1, <2>2, <2>3, <2>4, <2>5, <2>6, <2>7, <2>8, <2>9, <2>10, <2>11, <2>12, <2>13, <2>14 DEF RebuildStep
  <1>2. ASSUME NEW v \in Reviews, See(v) \/ Put(v) \/ ReviewStep(v) \/ CrashInWrite(v) PROVE Present'
    <2>0. v \in Writers /\ v \notin Rebuilds BY WritersAssumption DEF Writers
    <2>1. CASE See(v)
      BY <2>1 DEF See
    <2>2. CASE Put(v)
      BY <2>2 DEF Put
    <2>3. CASE Write(v)
      BY <2>0, <2>3, Apart DEF Write, By, Names
    <2>4. CASE WriteFails(v)
      BY <2>4 DEF WriteFails
    <2>5. CASE ReviewCommit(v)
      BY <2>5 DEF ReviewCommit
    <2>6. CASE ReviewCommitFails(v)
      BY <2>6 DEF ReviewCommitFails
    <2>7. CASE Reconcile(v)
      BY <2>7 DEF Reconcile
    <2>8. CASE ReconcileFails(v)
      BY <2>8 DEF ReconcileFails
    <2>9. CASE CrashInWrite(v)
      <3>1. PICK k \in 1 .. 3 : files' = Partly(ReviewOrder, k, By(v), files)
        BY <2>9 DEF CrashInWrite, CrashWith
      <3>4. By(v) \in Revisions /\ files \in Revisions /\ k \in 0 .. 3 /\ "meta" \in Names /\ By(v)["meta"] = v
        <4>1. "meta" \in Names /\ By(v)["meta"] = v BY DEF By, Names
        <4>2. By(v) \in Revisions /\ files \in Revisions BY <2>0, RevisionsTyped DEF TypeOK
        <4> QED BY <3>1, <4>1, <4>2
      <3>2. files'["meta"] \in {v, files["meta"]}
        BY <3>1, <3>4, TornFiles
      <3>3. row # "gone"
        BY <1>0, <2>0, <2>9, Apart DEF CrashInWrite, Guarded
      <3> QED BY <2>0, <3>2, <3>3, Apart
    <2> QED BY <1>2, <2>1, <2>2, <2>3, <2>4, <2>5, <2>6, <2>7, <2>8, <2>9 DEF ReviewStep
  <1>3. CASE Overrun
    BY <1>3 DEF Overrun
  <1>4. CASE DeleteRow
    BY <1>4 DEF DeleteRow
  <1>5. CASE RemoveTree
    BY <1>5 DEF RemoveTree
  <1>6. CASE Crash
    BY <1>6 DEF Crash, CrashWith
  <1>7. CASE UNCHANGED vars BY <1>0, <1>7
  <1> QED BY <1>1, <1>2, <1>3, <1>4, <1>5, <1>6, <1>7 DEF Next
\* Every step of the store is one of its promise, or none.
LEMMA StepsKeepPromise == TypeOK /\ Guarded /\ Present /\ [Next]_vars => [Promise!Next]_(Promise!pvars)
  <1> SUFFICES ASSUME TypeOK /\ Guarded /\ Present, [Next]_vars PROVE [Promise!Next]_(Promise!pvars)
    OBVIOUS
  <1>0. /\ pc \in [Writers -> Steps] /\ Nobody \notin Writers
        /\ \A w \in Writers : held = w <=> pc[w] \in {"write", "commit"}
    BY Apart DEF TypeOK
  <1>9. /\ troubles \in Nat
        /\ row = "there" => "meta" \in Names /\ files["meta"] # Missing
    BY BoundsAssumption DEF TypeOK, Present, Names
  <1>1. ASSUME NEW r \in Rebuilds, Request(r) \/ RebuildStep(r) \/ CrashInSwap(r) PROVE [Promise!Next]_(Promise!pvars)
    <2>0. r \in Writers /\ r \notin Reviews BY WritersAssumption DEF Writers
    <2>1. CASE Request(r)
      <3>1. UNCHANGED <<files, seen>> /\ troubles' >= troubles
        BY <1>9, <2>1 DEF Request, Fault, DbFault, DiskFault, CrashWith
      <3> QED BY <3>1 DEF Promise!Next
    <2>2. CASE Start(r)
      <3>1. UNCHANGED <<files, seen>> /\ troubles' >= troubles
        BY <1>9, <2>2 DEF Start, Fault, DbFault, DiskFault, CrashWith
      <3> QED BY <3>1 DEF Promise!Next
    <2>3. CASE Acquire(r)
      <3>1. UNCHANGED <<files, seen>> /\ troubles' >= troubles
        BY <1>9, <2>3 DEF Acquire, Fault, DbFault, DiskFault, CrashWith
      <3> QED BY <3>1 DEF Promise!Next
    <2>4. CASE SetNote(r)
      <3>1. UNCHANGED <<files, seen>> /\ troubles' >= troubles
        BY <1>9, <2>4 DEF SetNote, Fault, DbFault, DiskFault, CrashWith
      <3> QED BY <3>1 DEF Promise!Next
    <2>5. CASE Backup(r)
      <3>1. UNCHANGED <<files, seen>> /\ troubles' >= troubles
        BY <1>9, <2>5 DEF Backup, Fault, DbFault, DiskFault, CrashWith
      <3> QED BY <3>1 DEF Promise!Next
    <2>6. CASE ComputeFails(r)
      <3>1. UNCHANGED <<files, seen>> /\ troubles' >= troubles
        BY <1>9, <2>6 DEF ComputeFails, Fault, DbFault, DiskFault, CrashWith
      <3> QED BY <3>1 DEF Promise!Next
    <2>7. CASE Swap(r)
      <3>1. files # Promise!Gone
        BY <1>9, <2>7 DEF Swap, Promise!Gone, Promise!By, Promise!Names
      <3>2. files' \in Promise!Result(r, files)
        BY <2>7, SwappedFiles DEF Swap, TypeOK
      <3>3. Promise!Rebuild(r) /\ troubles' >= troubles
        BY <1>9, <3>1, <3>2, <2>7 DEF Swap, Promise!Rebuild
      <3> QED BY <3>3 DEF Promise!Next
    <2>8. CASE SwapRefused(r)
      <3>1. UNCHANGED <<files, seen>> /\ troubles' >= troubles
        BY <1>9, <2>8 DEF SwapRefused, Fault, DbFault, DiskFault, CrashWith
      <3> QED BY <3>1 DEF Promise!Next
    <2>9. CASE SwapBreaks(r)
      <3>1. PICK shape \in Shapes, k \in 0 .. 3 : files' = Partly(SwapOrder, k, Swapped(r, shape, files), files)
        BY <2>9 DEF SwapBreaks, CrashWith
      <3> DEFINE new == Swapped(r, shape, files)
      <3>2. new \in Revisions /\ files \in Revisions
        BY <2>0, RevisionsTyped DEF TypeOK
      <3>3. \A n \in Names : new[n] \in {r, Missing, files[n]}
        BY <3>2, SwappedFiles
      <3>4. k \in 0 .. 3 /\ files' = Partly(SwapOrder, k, new, files)
        BY <3>1
      <3> HIDE DEF new
      <3>5. files' \in Revisions /\ \A n \in Names : files'[n] \in {new[n], files[n]}
        BY <3>2, <3>4, TornFiles
      <3>6. files # Promise!Gone
        BY <1>0, <1>9, <2>0, <2>9, Apart DEF SwapBreaks, Guarded, Promise!Gone, Promise!By, Promise!Names
      <3>7. troubles' = troubles + 1 /\ UNCHANGED seen
        BY <1>9, <2>9 DEF SwapBreaks, DiskFault, Fault, CrashWith
      <3>8. \A n \in Names : files'[n] \in {files[n], r, Missing}
        BY <3>3, <3>5
      <3>9. files' \in [Names -> {r, Missing} \cup {files[n] : n \in Names}]
        BY <3>5, <3>8 DEF Revisions
      <3>10. Promise!Tear(r)
        BY <1>9, <3>6, <3>7, <3>8, <3>9 DEF Promise!Tear, Promise!Names, Names
      <3>11. troubles' >= troubles
        BY <1>9, <3>7
      <3> QED BY <2>0, <3>10, <3>11 DEF Promise!Next
    <2>10. CASE SwapCommit(r)
      <3>1. UNCHANGED <<files, seen>> /\ troubles' >= troubles
        BY <1>9, <2>10 DEF SwapCommit, Fault, DbFault, DiskFault, CrashWith
      <3> QED BY <3>1 DEF Promise!Next
    <2>11. CASE SwapCommitFails(r)
      <3>1. UNCHANGED <<files, seen>> /\ troubles' >= troubles
        BY <1>9, <2>11 DEF SwapCommitFails, Fault, DbFault, DiskFault, CrashWith
      <3> QED BY <3>1 DEF Promise!Next
    <2>12. CASE Fail(r)
      <3>1. UNCHANGED <<files, seen>> /\ troubles' >= troubles
        BY <1>9, <2>12 DEF Fail, Fault, DbFault, DiskFault, CrashWith
      <3> QED BY <3>1 DEF Promise!Next
    <2>13. CASE End(r)
      <3>1. UNCHANGED <<files, seen>> /\ troubles' >= troubles
        BY <1>9, <2>13 DEF End, Fault, DbFault, DiskFault, CrashWith
      <3> QED BY <3>1 DEF Promise!Next
    <2>14. CASE CrashInSwap(r)
      <3>1. PICK shape \in Shapes, k \in 1 .. 3 : files' = Partly(SwapOrder, k, Swapped(r, shape, files), files)
        BY <2>14 DEF CrashInSwap, CrashWith
      <3> DEFINE new == Swapped(r, shape, files)
      <3>2. new \in Revisions /\ files \in Revisions
        BY <2>0, RevisionsTyped DEF TypeOK
      <3>3. \A n \in Names : new[n] \in {r, Missing, files[n]}
        BY <3>2, SwappedFiles
      <3>4. k \in 0 .. 3 /\ files' = Partly(SwapOrder, k, new, files)
        BY <3>1
      <3> HIDE DEF new
      <3>5. files' \in Revisions /\ \A n \in Names : files'[n] \in {new[n], files[n]}
        BY <3>2, <3>4, TornFiles
      <3>6. files # Promise!Gone
        BY <1>0, <1>9, <2>0, <2>14, Apart DEF CrashInSwap, Guarded, Promise!Gone, Promise!By, Promise!Names
      <3>7. troubles' = troubles + 1 /\ UNCHANGED seen
        BY <1>9, <2>14 DEF CrashInSwap, DiskFault, Fault, CrashWith
      <3>8. \A n \in Names : files'[n] \in {files[n], r, Missing}
        BY <3>3, <3>5
      <3>9. files' \in [Names -> {r, Missing} \cup {files[n] : n \in Names}]
        BY <3>5, <3>8 DEF Revisions
      <3>10. Promise!Tear(r)
        BY <1>9, <3>6, <3>7, <3>8, <3>9 DEF Promise!Tear, Promise!Names, Names
      <3>11. troubles' >= troubles
        BY <1>9, <3>7
      <3> QED BY <2>0, <3>10, <3>11 DEF Promise!Next
    <2> QED BY <1>1, <2>1, <2>2, <2>3, <2>4, <2>5, <2>6, <2>7, <2>8, <2>9, <2>10, <2>11, <2>12, <2>13, <2>14 DEF RebuildStep
  <1>2. ASSUME NEW v \in Reviews, See(v) \/ Put(v) \/ ReviewStep(v) \/ CrashInWrite(v) PROVE [Promise!Next]_(Promise!pvars)
    <2>0. v \in Writers /\ v \notin Rebuilds BY WritersAssumption DEF Writers
    <2>1. CASE See(v)
      <3>1. files # Promise!Gone
        BY <1>9, <2>1 DEF See, Promise!Gone, Promise!By, Promise!Names
      <3>2. Promise!Show(v) /\ troubles' >= troubles
        BY <1>9, <3>1, <2>1 DEF See, Promise!Show
      <3> QED BY <3>2 DEF Promise!Next
    <2>2. CASE Put(v)
      <3>1. UNCHANGED <<files, seen>> /\ troubles' >= troubles
        BY <1>9, <2>2 DEF Put, Fault, DbFault, DiskFault, CrashWith
      <3> QED BY <3>1 DEF Promise!Next
    <2>3. CASE Write(v)
      <3>1. files = seen[v]
        BY <2>3 DEF Write, Guarded
      <3>2. Promise!Review(v) /\ troubles' >= troubles
        BY <1>9, <3>1, <2>3 DEF Write, Promise!Review, Promise!By, By, Promise!Names, Names
      <3> QED BY <3>2 DEF Promise!Next
    <2>4. CASE WriteFails(v)
      <3>1. UNCHANGED <<files, seen>> /\ troubles' >= troubles
        BY <1>9, <2>4 DEF WriteFails, Fault, DbFault, DiskFault, CrashWith
      <3> QED BY <3>1 DEF Promise!Next
    <2>5. CASE ReviewCommit(v)
      <3>1. UNCHANGED <<files, seen>> /\ troubles' >= troubles
        BY <1>9, <2>5 DEF ReviewCommit, Fault, DbFault, DiskFault, CrashWith
      <3> QED BY <3>1 DEF Promise!Next
    <2>6. CASE ReviewCommitFails(v)
      <3>1. UNCHANGED <<files, seen>> /\ troubles' >= troubles
        BY <1>9, <2>6 DEF ReviewCommitFails, Fault, DbFault, DiskFault, CrashWith
      <3> QED BY <3>1 DEF Promise!Next
    <2>7. CASE Reconcile(v)
      <3>1. UNCHANGED <<files, seen>> /\ troubles' >= troubles
        BY <1>9, <2>7 DEF Reconcile, Fault, DbFault, DiskFault, CrashWith
      <3> QED BY <3>1 DEF Promise!Next
    <2>8. CASE ReconcileFails(v)
      <3>1. UNCHANGED <<files, seen>> /\ troubles' >= troubles
        BY <1>9, <2>8 DEF ReconcileFails, Fault, DbFault, DiskFault, CrashWith
      <3> QED BY <3>1 DEF Promise!Next
    <2>9. CASE CrashInWrite(v)
      <3>1. PICK k \in 1 .. 3 : files' = Partly(ReviewOrder, k, By(v), files)
        BY <2>9 DEF CrashInWrite, CrashWith
      <3>2. By(v) \in Revisions /\ files \in Revisions /\ k \in 0 .. 3
        BY <2>0, RevisionsTyped DEF TypeOK
      <3>3. \A n \in Names : By(v)[n] = v
        BY DEF By
      <3>5. files' \in Revisions /\ \A n \in Names : files'[n] \in {By(v)[n], files[n]}
        BY <3>1, <3>2, TornFiles
      <3>6. files # Promise!Gone
        BY <1>0, <1>9, <2>0, <2>9, Apart DEF CrashInWrite, Guarded, Promise!Gone, Promise!By, Promise!Names
      <3>7. troubles' = troubles + 1 /\ UNCHANGED seen
        BY <1>9, <2>9 DEF CrashInWrite, DiskFault, Fault, CrashWith
      <3>8. \A n \in Names : files'[n] \in {files[n], v, Missing}
        BY <3>3, <3>5
      <3>9. files' \in [Names -> {v, Missing} \cup {files[n] : n \in Names}]
        BY <3>5, <3>8 DEF Revisions
      <3>10. Promise!Tear(v)
        BY <1>9, <3>6, <3>7, <3>8, <3>9 DEF Promise!Tear, Promise!Names, Names
      <3>11. troubles' >= troubles
        BY <1>9, <3>7
      <3> QED BY <2>0, <3>10, <3>11 DEF Promise!Next
    <2> QED BY <1>2, <2>1, <2>2, <2>3, <2>4, <2>5, <2>6, <2>7, <2>8, <2>9 DEF ReviewStep
  <1>3. CASE Overrun
    <2>1. UNCHANGED <<files, seen>> /\ troubles' >= troubles
      BY <1>9, <1>3 DEF Overrun, Fault, DbFault, DiskFault, CrashWith
    <2> QED BY <2>1 DEF Promise!Next
  <1>4. CASE DeleteRow
    <2>1. UNCHANGED <<files, seen>> /\ troubles' >= troubles
      BY <1>9, <1>4 DEF DeleteRow, Fault, DbFault, DiskFault, CrashWith
    <2> QED BY <2>1 DEF Promise!Next
  <1>5. CASE RemoveTree
    <2>1. Promise!Remove /\ troubles' >= troubles
      BY <1>9, <1>5 DEF RemoveTree, Promise!Remove, Promise!Gone, NoFiles, Promise!By, By, Promise!Names, Names
    <2> QED BY <2>1 DEF Promise!Next
  <1>6. CASE Crash
    <2>1. UNCHANGED <<files, seen>> /\ troubles' >= troubles
      BY <1>9, <1>6 DEF Crash, Fault, DbFault, DiskFault, CrashWith
    <2> QED BY <2>1 DEF Promise!Next
  <1>7. CASE UNCHANGED vars BY <1>7 DEF Promise!pvars
  <1> QED BY <1>1, <1>2, <1>3, <1>4, <1>5, <1>6, <1>7 DEF Next

(***************************************************************************)
(* To its readers and reviewers the store is the promise: lyrics change as *)
(* a whole unless the disk fails or the process is killed amid a change, a *)
(* review replaces what its author saw, and what is removed stays away.    *)
(***************************************************************************)
THEOREM StoreKeepsPromise == Spec => KeepsPromise
  <1>1. Init => TypeOK /\ Guarded /\ Present
    <2>1. Init => Guarded BY Apart DEF Init, Guarded
    <2>2. Init => Present BY Apart DEF Init, Present, By, Names
    <2> QED BY InitTyped, <2>1, <2>2
  <1>2. Init => Promise!Init
    BY DEF Init, Promise!Init, Promise!By, By, Promise!Names, Names
  <1> QED BY <1>1, <1>2, NextTyped, NextGuarded, NextPresent, StepsKeepPromise,
             PTL DEF Spec, KeepsPromise, Promise!Spec

=============================================================================
