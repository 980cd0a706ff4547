------------------------ MODULE JobLifecycle_proofs ------------------------
(* Theorems about JobLifecycle, for every set of jobs and every bound. *)
EXTENDS JobLifecycle, TLAPS

\* The control state is well formed: a transaction is open exactly in the
\* three transaction steps, a loaded status is held exactly between load and
\* commit, only a dispatched job has a coroutine, only an inserted one a row,
\* and nothing runs in a process that is still booting.
Shape ==
  /\ \A j \in Jobs :
       /\ pc[j] \in {"load", "commit", "publish"} <=> tx[j] # "none"
       /\ pc[j] = "commit" <=> seen[j] # "none"
       /\ pc[j] # "none" => birth[j] = "done"
       /\ birth[j] \in {"unborn", "staged"} => status[j] = "absent"
  /\ up # "up" =>
       /\ beating = {} /\ clearCall = "idle"
       /\ \A j \in Jobs :
            /\ pc[j] = "none" /\ cookie[j] = "none"
            /\ birth[j] \in {"unborn", "done"}
            /\ cancelCall[j] = "idle" /\ deleteCall[j] = "idle"

\* What keeps a completed row servable: the worker's last transaction has its
\* exports as long as it has its row, and whatever removes a job's files does so
\* when the row is gone, or before the job was ever dispatched.
Servable ==
  /\ CompletedServable
  /\ \A j \in Jobs :
       /\ tx[j] = "completed" /\ pc[j] \in {"load", "commit"} =>
            "exports" \in files[j] \/ status[j] = "absent"
       /\ deleteCall[j] = "committed" => status[j] = "absent"
       /\ deleteCall[j] # "idle" => birth[j] \notin {"unborn", "staged"}
       /\ birth[j] = "inserted" => status[j] \in {"queued", "cancelled", "absent"}
       /\ j \in clearing =>
            /\ birth[j] \notin {"unborn", "staged"}
            /\ clearCall = "committed" => status[j] = "absent"

\* While the database does not fail, a row reaches "completed" or "failed" in
\* the worker's last commit, and nothing of the worker but the announcement of
\* that end is left then.
Settled ==
  /\ LiveRowHasOwner
  /\ SettledJobIsQuiet
  /\ \A j \in Jobs :
       /\ status[j] \in {"completed", "failed"} /\ pc[j] # "none" =>
            pc[j] = "publish" /\ Writes(tx[j]) = status[j]
       /\ pc[j] = "publish" /\ tx[j] \in LastTxs =>
            status[j] \in Ended \cup {"absent"}
       /\ seen[j] \notin Ended
       /\ birth[j] = "inserted" => status[j] \in {"queued", "cancelled", "absent"}
  /\ up = "dispatch" => \A j \in Jobs : status[j] \notin InProgress

\* Outside _mark_failed an exception leaves a worker before _mark_failed's load.
LEMMA RaiseMarksFailed ==
  ASSUME NEW j \in Jobs, Raise(j), tx[j] # "failed"
  PROVE  /\ pc' = [pc EXCEPT ![j] = "load"]
         /\ tx' = [tx EXCEPT ![j] = "failed"]
         /\ seen' = [seen EXCEPT ![j] = "none"]
         /\ UNCHANGED <<tries, pass, cookie>>
  BY DEF Raise, Goto

\* Inside it an exception leaves the coroutine; then nothing of it remains.
LEMMA RaiseReturns ==
  ASSUME NEW j \in Jobs, Raise(j), tx[j] = "failed"
  PROVE  Return(j)
  BY DEF Raise

\* A coroutine that returns leaves nothing of its frame.
LEMMA ReturnEnds ==
  ASSUME NEW j \in Jobs, Return(j)
  PROVE  /\ pc' = [pc EXCEPT ![j] = "none"]
         /\ tx' = [tx EXCEPT ![j] = "none"]
         /\ seen' = [seen EXCEPT ![j] = "none"]
         /\ tries' = [tries EXCEPT ![j] = 0]
         /\ pass' = [pass EXCEPT ![j] = 1]
         /\ cookie' = [cookie EXCEPT ![j] = "none"]
  BY DEF Return, Goto

\* The initial state is typed and well formed.
LEMMA InitShape == Init => TypeOK /\ Shape
  BY BoundsAssumption DEF Init, TypeOK, Shape, Status, HubStages, InProgress, Ended

\* Every step keeps the types and the shape of the control state.
LEMMA NextShape == TypeOK /\ Shape /\ [Next]_vars => TypeOK' /\ Shape'
  <1> SUFFICES ASSUME TypeOK, Shape, [Next]_vars PROVE TypeOK' /\ Shape'
    OBVIOUS
  <1> USE BoundsAssumption
      DEF TypeOK, Shape, Status, HubStages, InProgress, Ended, Txs, LastTxs, Work, Halts,
          Publish, Forget, Goto, Return, Raise, Fault, db, worker, calls, hub,
          process
  <1>1. ASSUME NEW j \in Jobs, StageUpload(j) PROVE TypeOK' /\ Shape'
    BY <1>1 DEF StageUpload
  <1>2. ASSUME NEW j \in Jobs, InsertFails(j) PROVE TypeOK' /\ Shape'
    BY <1>2 DEF InsertFails
  <1>3. ASSUME NEW j \in Jobs, InsertJob(j) PROVE TypeOK' /\ Shape'
    BY <1>3 DEF InsertJob
  <1>4. ASSUME NEW j \in Jobs, DispatchJob(j) PROVE TypeOK' /\ Shape'
    BY <1>4 DEF DispatchJob
  <1>5. ASSUME NEW j \in Jobs, RefreshFails(j) PROVE TypeOK' /\ Shape'
    BY <1>5 DEF RefreshFails
  <1>6. ASSUME NEW j \in Jobs, Claim(j) PROVE TypeOK' /\ Shape'
    BY <1>6, SMTT(40) DEF Claim
  <1>7. ASSUME NEW j \in Jobs, LoadLive(j) PROVE TypeOK' /\ Shape'
    BY <1>7 DEF LoadLive
  <1>8. ASSUME NEW j \in Jobs, LoadHalted(j) PROVE TypeOK' /\ Shape'
    BY <1>8, SMTT(40) DEF LoadHalted
  <1>9. ASSUME NEW j \in Jobs, CommitStage(j) PROVE TypeOK' /\ Shape'
    BY <1>9 DEF CommitStage, Apply, Proceed, Writes, Silent
  <1>10. ASSUME NEW j \in Jobs, CommitStale(j) PROVE TypeOK' /\ Shape'
    <2>1. CASE tx[j] # "attempt" /\ Raise(j)
      BY <1>10, <2>1, SMTT(40) DEF CommitStale
    <2>2. CASE tx[j] \in MayNoop /\ Proceed(j) /\ UNCHANGED <<tries, pass, cookie>>
      BY <1>10, <2>2, SMTT(40) DEF CommitStale, Proceed, MayNoop
    <2> QED
      BY <1>10, <2>1, <2>2 DEF CommitStale
  <1>11. ASSUME NEW j \in Jobs, PublishStage(j) PROVE TypeOK' /\ Shape'
    <2>1. CASE tx[j] \in LastTxs
      BY <1>11, <2>1, SMTT(40) DEF PublishStage, Writes
    <2>2. CASE tx[j] \notin LastTxs
      <3>1. Writes(tx[j]) \in InProgress
        BY <1>11, <2>2 DEF PublishStage, Writes
      <3> QED
        BY <1>11, <2>2, <3>1, SMTT(40) DEF PublishStage, Proceed
    <2> QED
      BY <2>1, <2>2
  <1>12. ASSUME NEW j \in Jobs, ProbeRejects(j) PROVE TypeOK' /\ Shape'
    BY <1>12 DEF ProbeRejects
  <1>13. ASSUME NEW j \in Jobs, Probe(j) PROVE TypeOK' /\ Shape'
    BY <1>13 DEF Probe
  <1>14. ASSUME NEW j \in Jobs, Fetch(j) PROVE TypeOK' /\ Shape'
    BY <1>14 DEF Fetch
  <1>15. ASSUME NEW j \in Jobs, Export(j) PROVE TypeOK' /\ Shape'
    BY <1>15 DEF Export
  <1>16. ASSUME NEW j \in Jobs, Resolve(j) PROVE TypeOK' /\ Shape'
    BY <1>16 DEF Resolve
  <1>17. ASSUME NEW j \in Jobs, WorkFails(j) PROVE TypeOK' /\ Shape'
    BY <1>17 DEF WorkFails
  <1>18. ASSUME NEW j \in Jobs, GpuDone(j) PROVE TypeOK' /\ Shape'
    BY <1>18, SMTT(40) DEF GpuDone
  <1>19. ASSUME NEW j \in Jobs, GpuCold(j) PROVE TypeOK' /\ Shape'
    BY <1>19 DEF GpuCold
  <1>20. ASSUME NEW j \in Jobs, GpuBusy(j) PROVE TypeOK' /\ Shape'
    BY <1>20, SMTT(40) DEF GpuBusy
  <1>21. ASSUME NEW j \in Jobs, DbFault(j) PROVE TypeOK' /\ Shape'
    <2>1. CASE pc[j] = "start" \/ tx[j] = "failed"
      <3>1. up = "up" /\ birth[j] = "done" /\ faults' \in 0..MaxDbFaults
        BY <1>21 DEF DbFault
      <3>2. Return(j)
        BY <1>21, <2>1, RaiseReturns DEF DbFault
      <3>3. UNCHANGED <<status, artifacts, files, birth, cancelCall, deleteCall,
                        clearCall, clearing, hubStage, beating, up, crashes>>
        BY <1>21 DEF DbFault
      <3>4. TypeOK'
        BY <3>1, <3>2, <3>3, ReturnEnds
      <3>5. Shape'
        BY <3>1, <3>2, <3>3, ReturnEnds
      <3> QED
        BY <3>4, <3>5
    <2>2. CASE pc[j] # "start" /\ tx[j] # "failed"
      <3>1. up = "up" /\ birth[j] = "done" /\ faults' \in 0..MaxDbFaults
        BY <1>21 DEF DbFault
      <3>2. Raise(j)
        BY <1>21, <2>2 DEF DbFault
      <3>3. /\ pc' = [pc EXCEPT ![j] = "load"] /\ tx' = [tx EXCEPT ![j] = "failed"]
            /\ seen' = [seen EXCEPT ![j] = "none"]
            /\ UNCHANGED <<tries, pass, cookie>>
        BY <2>2, <3>2, RaiseMarksFailed
      <3>4. UNCHANGED <<status, artifacts, files, birth, cancelCall, deleteCall,
                        clearCall, clearing, hubStage, beating, up, crashes>>
        BY <1>21 DEF DbFault
      <3>5. TypeOK'
        BY <3>1, <3>3, <3>4
      <3>6. Shape'
        BY <3>1, <3>3, <3>4
      <3> QED
        BY <3>5, <3>6
    <2> QED
      BY <2>1, <2>2
  <1>22. ASSUME NEW j \in Jobs, CommitAckLost(j) PROVE TypeOK' /\ Shape'
    <2>1. Writes(tx[j]) \in Status
      BY <1>22 DEF CommitAckLost, Writes
    <2>2. /\ status' \in [Jobs -> Status \cup {"absent"}] /\ artifacts' \subseteq Jobs
          /\ \A i \in Jobs : status[i] = "absent" => status'[i] = "absent"
      BY <1>22, <2>1 DEF CommitAckLost, Apply
    <2>3. up = "up" /\ birth[j] = "done" /\ faults' \in 0..MaxDbFaults
      BY <1>22 DEF CommitAckLost
    <2>4. CASE tx[j] = "failed"
      <3>1. Return(j)
        BY <1>22, <2>4, RaiseReturns DEF CommitAckLost
      <3>2. UNCHANGED <<files, birth, cancelCall, deleteCall, clearCall,
                        clearing, hubStage, beating, up, crashes>>
        BY <1>22 DEF CommitAckLost
      <3>3. TypeOK'
        BY <2>2, <2>3, <3>1, <3>2, ReturnEnds
      <3>4. Shape'
        BY <2>2, <2>3, <3>1, <3>2, ReturnEnds
      <3> QED
        BY <3>3, <3>4
    <2>5. CASE tx[j] # "failed"
      <3>1. Raise(j)
        BY <1>22 DEF CommitAckLost
      <3>2. /\ pc' = [pc EXCEPT ![j] = "load"] /\ tx' = [tx EXCEPT ![j] = "failed"]
            /\ seen' = [seen EXCEPT ![j] = "none"]
            /\ UNCHANGED <<tries, pass, cookie>>
        BY <2>5, <3>1, RaiseMarksFailed
      <3>3. UNCHANGED <<files, birth, cancelCall, deleteCall, clearCall,
                        clearing, hubStage, beating, up, crashes>>
        BY <1>22 DEF CommitAckLost
      <3>4. TypeOK'
        BY <2>2, <2>3, <3>2, <3>3
      <3>5. Shape'
        BY <2>2, <2>3, <3>2, <3>3
      <3> QED
        BY <3>4, <3>5
    <2> QED
      BY <2>4, <2>5
  <1>23. ASSUME NEW j \in Jobs, CancelLoad(j) PROVE TypeOK' /\ Shape'
    BY <1>23 DEF CancelLoad
  <1>24. ASSUME NEW j \in Jobs, CancelCommit(j) PROVE TypeOK' /\ Shape'
    BY <1>24 DEF CancelCommit
  <1>25. ASSUME NEW j \in Jobs, CancelAnswer(j) PROVE TypeOK' /\ Shape'
    BY <1>25 DEF CancelAnswer
  <1>26. ASSUME NEW j \in Jobs, CancelUnanswered(j) PROVE TypeOK' /\ Shape'
    BY <1>26 DEF CancelUnanswered
  <1>27. ASSUME NEW j \in Jobs, DeleteLoad(j) PROVE TypeOK' /\ Shape'
    BY <1>27 DEF DeleteLoad
  <1>28. ASSUME NEW j \in Jobs, DeleteCommit(j) PROVE TypeOK' /\ Shape'
    BY <1>28 DEF DeleteCommit
  <1>29. ASSUME NEW j \in Jobs, DeleteAckLost(j) PROVE TypeOK' /\ Shape'
    BY <1>29 DEF DeleteAckLost
  <1>30. ASSUME NEW j \in Jobs, DeleteCleanup(j) PROVE TypeOK' /\ Shape'
    BY <1>30 DEF DeleteCleanup
  <1>31. CASE ClearLoad
    BY <1>31 DEF ClearLoad
  <1>32. CASE ClearCommit
    BY <1>32 DEF ClearCommit
  <1>33. CASE ClearAckLost
    BY <1>33 DEF ClearAckLost
  <1>34. CASE ClearCleanup
    BY <1>34 DEF ClearCleanup
  <1>35. CASE Crash
    BY <1>35 DEF Crash
  <1>36. CASE ReconcileRows
    BY <1>36 DEF ReconcileRows
  <1>37. CASE ReconcileDispatch
    BY <1>37 DEF ReconcileDispatch
  <1>38. CASE UNCHANGED vars
    BY <1>38 DEF vars
  <1> HIDE DEF TypeOK, Shape, Status, HubStages, InProgress, Ended, Txs, LastTxs, Work, Halts,
               Publish, Forget, Goto, Return, Raise, Fault, db, worker, calls, hub, process
  <1> QED
    BY <1>1, <1>2, <1>3, <1>4, <1>5, <1>6, <1>7, <1>8, <1>9, <1>10, <1>11,
       <1>12, <1>13, <1>14, <1>15, <1>16, <1>17, <1>18, <1>19, <1>20, <1>21,
       <1>22, <1>23, <1>24, <1>25, <1>26, <1>27, <1>28, <1>29, <1>30, <1>31,
       <1>32, <1>33, <1>34, <1>35, <1>36, <1>37, <1>38
    DEF Next, Create, Worker, Transact, Compute, GpuWindow, Cancel, Delete,
        ClearFailed, Reconcile

\* Type correctness, and the shape of the control state that it rests on.
THEOREM TypeCorrect == Spec => [](TypeOK /\ Shape)
  BY InitShape, NextShape, PTL DEF Spec

-----------------------------------------------------------------------------
(* Cookies *)

\* Every step keeps cookies with their owners.
LEMMA NextCookie ==
  TypeOK /\ Shape /\ CookieOwned /\ [Next]_vars => CookieOwned'
  <1> SUFFICES ASSUME TypeOK, Shape, CookieOwned, [Next]_vars
               PROVE  CookieOwned'
    OBVIOUS
  <1> USE DEF TypeOK, Shape, CookieOwned, Txs, LastTxs, Work,
          Halts, Publish, Forget, Goto, Return, Raise, Fault, db, worker, calls,
          hub, process
  <1>1. ASSUME NEW j \in Jobs, StageUpload(j) PROVE CookieOwned'
    BY <1>1 DEF StageUpload
  <1>2. ASSUME NEW j \in Jobs, InsertFails(j) PROVE CookieOwned'
    BY <1>2 DEF InsertFails
  <1>3. ASSUME NEW j \in Jobs, InsertJob(j) PROVE CookieOwned'
    BY <1>3 DEF InsertJob
  <1>4. ASSUME NEW j \in Jobs, DispatchJob(j) PROVE CookieOwned'
    BY <1>4 DEF DispatchJob
  <1>5. ASSUME NEW j \in Jobs, RefreshFails(j) PROVE CookieOwned'
    BY <1>5 DEF RefreshFails
  <1>6. ASSUME NEW j \in Jobs, Claim(j) PROVE CookieOwned'
    BY <1>6 DEF Claim
  <1>7. ASSUME NEW j \in Jobs, LoadLive(j) PROVE CookieOwned'
    BY <1>7 DEF LoadLive
  <1>8. ASSUME NEW j \in Jobs, LoadHalted(j) PROVE CookieOwned'
    BY <1>8 DEF LoadHalted
  <1>9. ASSUME NEW j \in Jobs, CommitStage(j) PROVE CookieOwned'
    BY <1>9 DEF CommitStage, Apply, Proceed, Writes, Silent
  <1>10. ASSUME NEW j \in Jobs, CommitStale(j) PROVE CookieOwned'
    BY <1>10 DEF CommitStale, Proceed, MayNoop
  <1>11. ASSUME NEW j \in Jobs, PublishStage(j) PROVE CookieOwned'
    BY <1>11 DEF PublishStage, Proceed, Writes
  <1>12. ASSUME NEW j \in Jobs, ProbeRejects(j) PROVE CookieOwned'
    BY <1>12 DEF ProbeRejects
  <1>13. ASSUME NEW j \in Jobs, Probe(j) PROVE CookieOwned'
    BY <1>13 DEF Probe
  <1>14. ASSUME NEW j \in Jobs, Fetch(j) PROVE CookieOwned'
    BY <1>14 DEF Fetch
  <1>15. ASSUME NEW j \in Jobs, Export(j) PROVE CookieOwned'
    BY <1>15 DEF Export
  <1>16. ASSUME NEW j \in Jobs, Resolve(j) PROVE CookieOwned'
    BY <1>16 DEF Resolve
  <1>17. ASSUME NEW j \in Jobs, WorkFails(j) PROVE CookieOwned'
    BY <1>17 DEF WorkFails
  <1>18. ASSUME NEW j \in Jobs, GpuDone(j) PROVE CookieOwned'
    BY <1>18 DEF GpuDone
  <1>19. ASSUME NEW j \in Jobs, GpuCold(j) PROVE CookieOwned'
    BY <1>19 DEF GpuCold
  <1>20. ASSUME NEW j \in Jobs, GpuBusy(j) PROVE CookieOwned'
    BY <1>20 DEF GpuBusy
  <1>21. ASSUME NEW j \in Jobs, DbFault(j) PROVE CookieOwned'
    BY <1>21 DEF DbFault
  <1>22. ASSUME NEW j \in Jobs, CommitAckLost(j) PROVE CookieOwned'
    BY <1>22 DEF CommitAckLost, Apply, Writes
  <1>23. ASSUME NEW j \in Jobs, CancelLoad(j) PROVE CookieOwned'
    BY <1>23 DEF CancelLoad
  <1>24. ASSUME NEW j \in Jobs, CancelCommit(j) PROVE CookieOwned'
    BY <1>24 DEF CancelCommit
  <1>25. ASSUME NEW j \in Jobs, CancelAnswer(j) PROVE CookieOwned'
    BY <1>25 DEF CancelAnswer
  <1>26. ASSUME NEW j \in Jobs, CancelUnanswered(j) PROVE CookieOwned'
    BY <1>26 DEF CancelUnanswered
  <1>27. ASSUME NEW j \in Jobs, DeleteLoad(j) PROVE CookieOwned'
    BY <1>27 DEF DeleteLoad
  <1>28. ASSUME NEW j \in Jobs, DeleteCommit(j) PROVE CookieOwned'
    BY <1>28 DEF DeleteCommit
  <1>29. ASSUME NEW j \in Jobs, DeleteAckLost(j) PROVE CookieOwned'
    BY <1>29 DEF DeleteAckLost
  <1>30. ASSUME NEW j \in Jobs, DeleteCleanup(j) PROVE CookieOwned'
    BY <1>30 DEF DeleteCleanup
  <1>31. CASE ClearLoad
    BY <1>31 DEF ClearLoad
  <1>32. CASE ClearCommit
    BY <1>32 DEF ClearCommit
  <1>33. CASE ClearAckLost
    BY <1>33 DEF ClearAckLost
  <1>34. CASE ClearCleanup
    BY <1>34 DEF ClearCleanup
  <1>35. CASE Crash
    BY <1>35 DEF Crash
  <1>36. CASE ReconcileRows
    BY <1>36 DEF ReconcileRows
  <1>37. CASE ReconcileDispatch
    BY <1>37 DEF ReconcileDispatch
  <1>38. CASE UNCHANGED vars
    BY <1>38 DEF vars
  <1> QED
    BY <1>1, <1>2, <1>3, <1>4, <1>5, <1>6, <1>7, <1>8, <1>9, <1>10, <1>11,
       <1>12, <1>13, <1>14, <1>15, <1>16, <1>17, <1>18, <1>19, <1>20, <1>21,
       <1>22, <1>23, <1>24, <1>25, <1>26, <1>27, <1>28, <1>29, <1>30, <1>31,
       <1>32, <1>33, <1>34, <1>35, <1>36, <1>37, <1>38
    DEF Next, Create, Worker, Transact, Compute, GpuWindow, Cancel, Delete,
        ClearFailed, Reconcile

\* A job's cookies never outlive the task they were stashed for, whatever the
\* database, clients and restarts do.
THEOREM CookiesOwned == Spec => []CookieOwned
  <1>1. Init => CookieOwned
    BY DEF Init, CookieOwned
  <1> QED
    BY <1>1, NextCookie, TypeCorrect, PTL DEF Spec

-----------------------------------------------------------------------------
(* Completed rows *)

\* Every step keeps completed rows servable.
LEMMA NextServable ==
  TypeOK /\ Shape /\ Servable /\ [Next]_vars => Servable'
  <1> SUFFICES ASSUME TypeOK, Shape, Servable, [Next]_vars
               PROVE  Servable'
    OBVIOUS
  <1> USE DEF TypeOK, Shape, Servable, CompletedServable, InProgress, Txs, LastTxs, Work,
          Halts, Publish, Forget, Goto, Return, Raise, Fault, db, worker, calls,
          hub, process
  <1>1. ASSUME NEW j \in Jobs, StageUpload(j) PROVE Servable'
    BY <1>1 DEF StageUpload
  <1>2. ASSUME NEW j \in Jobs, InsertFails(j) PROVE Servable'
    BY <1>2 DEF InsertFails
  <1>3. ASSUME NEW j \in Jobs, InsertJob(j) PROVE Servable'
    BY <1>3 DEF InsertJob
  <1>4. ASSUME NEW j \in Jobs, DispatchJob(j) PROVE Servable'
    BY <1>4 DEF DispatchJob
  <1>5. ASSUME NEW j \in Jobs, RefreshFails(j) PROVE Servable'
    BY <1>5 DEF RefreshFails
  <1>6. ASSUME NEW j \in Jobs, Claim(j) PROVE Servable'
    BY <1>6 DEF Claim
  <1>7. ASSUME NEW j \in Jobs, LoadLive(j) PROVE Servable'
    BY <1>7 DEF LoadLive
  <1>8. ASSUME NEW j \in Jobs, LoadHalted(j) PROVE Servable'
    BY <1>8 DEF LoadHalted
  <1>9. ASSUME NEW j \in Jobs, CommitStage(j) PROVE Servable'
    BY <1>9 DEF CommitStage, Apply, Proceed, Writes, Silent
  <1>10. ASSUME NEW j \in Jobs, CommitStale(j) PROVE Servable'
    BY <1>10 DEF CommitStale, Proceed, MayNoop
  <1>11. ASSUME NEW j \in Jobs, PublishStage(j) PROVE Servable'
    BY <1>11 DEF PublishStage, Proceed, Writes
  <1>12. ASSUME NEW j \in Jobs, ProbeRejects(j) PROVE Servable'
    BY <1>12 DEF ProbeRejects
  <1>13. ASSUME NEW j \in Jobs, Probe(j) PROVE Servable'
    BY <1>13 DEF Probe
  <1>14. ASSUME NEW j \in Jobs, Fetch(j) PROVE Servable'
    BY <1>14 DEF Fetch
  <1>15. ASSUME NEW j \in Jobs, Export(j) PROVE Servable'
    BY <1>15 DEF Export
  <1>16. ASSUME NEW j \in Jobs, Resolve(j) PROVE Servable'
    BY <1>16 DEF Resolve
  <1>17. ASSUME NEW j \in Jobs, WorkFails(j) PROVE Servable'
    BY <1>17 DEF WorkFails
  <1>18. ASSUME NEW j \in Jobs, GpuDone(j) PROVE Servable'
    BY <1>18 DEF GpuDone
  <1>19. ASSUME NEW j \in Jobs, GpuCold(j) PROVE Servable'
    BY <1>19 DEF GpuCold
  <1>20. ASSUME NEW j \in Jobs, GpuBusy(j) PROVE Servable'
    BY <1>20 DEF GpuBusy
  <1>21. ASSUME NEW j \in Jobs, DbFault(j) PROVE Servable'
    BY <1>21 DEF DbFault
  <1>22. ASSUME NEW j \in Jobs, CommitAckLost(j) PROVE Servable'
    BY <1>22 DEF CommitAckLost, Apply, Writes
  <1>23. ASSUME NEW j \in Jobs, CancelLoad(j) PROVE Servable'
    BY <1>23 DEF CancelLoad
  <1>24. ASSUME NEW j \in Jobs, CancelCommit(j) PROVE Servable'
    BY <1>24 DEF CancelCommit
  <1>25. ASSUME NEW j \in Jobs, CancelAnswer(j) PROVE Servable'
    BY <1>25 DEF CancelAnswer
  <1>26. ASSUME NEW j \in Jobs, CancelUnanswered(j) PROVE Servable'
    BY <1>26 DEF CancelUnanswered
  <1>27. ASSUME NEW j \in Jobs, DeleteLoad(j) PROVE Servable'
    BY <1>27 DEF DeleteLoad
  <1>28. ASSUME NEW j \in Jobs, DeleteCommit(j) PROVE Servable'
    BY <1>28 DEF DeleteCommit
  <1>29. ASSUME NEW j \in Jobs, DeleteAckLost(j) PROVE Servable'
    BY <1>29 DEF DeleteAckLost
  <1>30. ASSUME NEW j \in Jobs, DeleteCleanup(j) PROVE Servable'
    BY <1>30 DEF DeleteCleanup
  <1>31. CASE ClearLoad
    BY <1>31 DEF ClearLoad
  <1>32. CASE ClearCommit
    BY <1>32 DEF ClearCommit
  <1>33. CASE ClearAckLost
    BY <1>33 DEF ClearAckLost
  <1>34. CASE ClearCleanup
    BY <1>34 DEF ClearCleanup
  <1>35. CASE Crash
    BY <1>35 DEF Crash
  <1>36. CASE ReconcileRows
    BY <1>36 DEF ReconcileRows
  <1>37. CASE ReconcileDispatch
    BY <1>37 DEF ReconcileDispatch
  <1>38. CASE UNCHANGED vars
    BY <1>38 DEF vars
  <1> QED
    BY <1>1, <1>2, <1>3, <1>4, <1>5, <1>6, <1>7, <1>8, <1>9, <1>10, <1>11,
       <1>12, <1>13, <1>14, <1>15, <1>16, <1>17, <1>18, <1>19, <1>20, <1>21,
       <1>22, <1>23, <1>24, <1>25, <1>26, <1>27, <1>28, <1>29, <1>30, <1>31,
       <1>32, <1>33, <1>34, <1>35, <1>36, <1>37, <1>38
    DEF Next, Create, Worker, Transact, Compute, GpuWindow, Cancel, Delete,
        ClearFailed, Reconcile

\* A row that says "completed" has its artifact rows and its export directory,
\* even when the database fails, whatever the clients and restarts do.
THEOREM CompletedIsServable == Spec => []CompletedServable
  <1>1. Init => Servable
    BY DEF Init, Servable, CompletedServable
  <1>2. Servable => CompletedServable
    BY DEF Servable
  <1> QED
    BY <1>1, <1>2, NextServable, TypeCorrect, PTL DEF Spec

-----------------------------------------------------------------------------
(* While the database answers: owners, heartbeats, ends *)

\* While the database answers, every step keeps the worker's end in order.
LEMMA NextSettled ==
  MaxDbFaults = 0 /\ TypeOK /\ Shape /\ Settled /\ [Next]_vars => Settled'
  <1> SUFFICES ASSUME MaxDbFaults = 0, TypeOK, Shape, Settled, [Next]_vars
               PROVE  Settled'
    OBVIOUS
  <1> USE DEF TypeOK, Shape, Settled, LiveRowHasOwner, SettledJobIsQuiet, Status,
          InProgress, Ended, Txs, LastTxs, Work,
          Halts, Publish, Forget, Goto, Return, Raise, Fault, db, worker, calls,
          hub, process
  <1>1. ASSUME NEW j \in Jobs, StageUpload(j) PROVE Settled'
    BY <1>1 DEF StageUpload
  <1>2. ASSUME NEW j \in Jobs, InsertFails(j) PROVE Settled'
    BY <1>2 DEF InsertFails
  <1>3. ASSUME NEW j \in Jobs, InsertJob(j) PROVE Settled'
    BY <1>3 DEF InsertJob
  <1>4. ASSUME NEW j \in Jobs, DispatchJob(j) PROVE Settled'
    BY <1>4 DEF DispatchJob
  <1>5. ASSUME NEW j \in Jobs, RefreshFails(j) PROVE Settled'
    BY <1>5 DEF RefreshFails
  <1>6. ASSUME NEW j \in Jobs, Claim(j) PROVE Settled'
    BY <1>6 DEF Claim
  <1>7. ASSUME NEW j \in Jobs, LoadLive(j) PROVE Settled'
    BY <1>7 DEF LoadLive
  <1>8. ASSUME NEW j \in Jobs, LoadHalted(j) PROVE Settled'
    BY <1>8 DEF LoadHalted
  <1>9. ASSUME NEW j \in Jobs, CommitStage(j) PROVE Settled'
    BY <1>9 DEF CommitStage, Apply, Proceed, Writes, Silent
  <1>10. ASSUME NEW j \in Jobs, CommitStale(j) PROVE Settled'
    BY <1>10 DEF CommitStale, Proceed, MayNoop
  <1>11. ASSUME NEW j \in Jobs, PublishStage(j) PROVE Settled'
    BY <1>11 DEF PublishStage, Proceed, Writes
  <1>12. ASSUME NEW j \in Jobs, ProbeRejects(j) PROVE Settled'
    BY <1>12 DEF ProbeRejects
  <1>13. ASSUME NEW j \in Jobs, Probe(j) PROVE Settled'
    BY <1>13 DEF Probe
  <1>14. ASSUME NEW j \in Jobs, Fetch(j) PROVE Settled'
    BY <1>14 DEF Fetch
  <1>15. ASSUME NEW j \in Jobs, Export(j) PROVE Settled'
    BY <1>15 DEF Export
  <1>16. ASSUME NEW j \in Jobs, Resolve(j) PROVE Settled'
    BY <1>16 DEF Resolve
  <1>17. ASSUME NEW j \in Jobs, WorkFails(j) PROVE Settled'
    BY <1>17 DEF WorkFails
  <1>18. ASSUME NEW j \in Jobs, GpuDone(j) PROVE Settled'
    BY <1>18 DEF GpuDone
  <1>19. ASSUME NEW j \in Jobs, GpuCold(j) PROVE Settled'
    BY <1>19 DEF GpuCold
  <1>20. ASSUME NEW j \in Jobs, GpuBusy(j) PROVE Settled'
    BY <1>20 DEF GpuBusy
  <1>21. ASSUME NEW j \in Jobs, DbFault(j) PROVE Settled'
    BY <1>21 DEF DbFault
  <1>22. ASSUME NEW j \in Jobs, CommitAckLost(j) PROVE Settled'
    BY <1>22 DEF CommitAckLost, Apply, Writes
  <1>23. ASSUME NEW j \in Jobs, CancelLoad(j) PROVE Settled'
    BY <1>23 DEF CancelLoad
  <1>24. ASSUME NEW j \in Jobs, CancelCommit(j) PROVE Settled'
    BY <1>24 DEF CancelCommit
  <1>25. ASSUME NEW j \in Jobs, CancelAnswer(j) PROVE Settled'
    BY <1>25 DEF CancelAnswer
  <1>26. ASSUME NEW j \in Jobs, CancelUnanswered(j) PROVE Settled'
    BY <1>26 DEF CancelUnanswered
  <1>27. ASSUME NEW j \in Jobs, DeleteLoad(j) PROVE Settled'
    BY <1>27 DEF DeleteLoad
  <1>28. ASSUME NEW j \in Jobs, DeleteCommit(j) PROVE Settled'
    BY <1>28 DEF DeleteCommit
  <1>29. ASSUME NEW j \in Jobs, DeleteAckLost(j) PROVE Settled'
    BY <1>29 DEF DeleteAckLost
  <1>30. ASSUME NEW j \in Jobs, DeleteCleanup(j) PROVE Settled'
    BY <1>30 DEF DeleteCleanup
  <1>31. CASE ClearLoad
    BY <1>31 DEF ClearLoad
  <1>32. CASE ClearCommit
    BY <1>32 DEF ClearCommit
  <1>33. CASE ClearAckLost
    BY <1>33 DEF ClearAckLost
  <1>34. CASE ClearCleanup
    BY <1>34 DEF ClearCleanup
  <1>35. CASE Crash
    BY <1>35 DEF Crash
  <1>36. CASE ReconcileRows
    BY <1>36 DEF ReconcileRows
  <1>37. CASE ReconcileDispatch
    BY <1>37 DEF ReconcileDispatch
  <1>38. CASE UNCHANGED vars
    BY <1>38 DEF vars
  <1> QED
    BY <1>1, <1>2, <1>3, <1>4, <1>5, <1>6, <1>7, <1>8, <1>9, <1>10, <1>11,
       <1>12, <1>13, <1>14, <1>15, <1>16, <1>17, <1>18, <1>19, <1>20, <1>21,
       <1>22, <1>23, <1>24, <1>25, <1>26, <1>27, <1>28, <1>29, <1>30, <1>31,
       <1>32, <1>33, <1>34, <1>35, <1>36, <1>37, <1>38
    DEF Next, Create, Worker, Transact, Compute, GpuWindow, Cancel, Delete,
        ClearFailed, Reconcile

\* So the worker's end is always in order.
LEMMA AlwaysSettled ==
  ASSUME MaxDbFaults = 0 PROVE Spec => [](TypeOK /\ Shape /\ Settled)
  <1>1. Init => Settled
    BY DEF Init, Settled, LiveRowHasOwner, SettledJobIsQuiet, InProgress, Ended
  <1>2. TypeOK /\ Shape /\ Settled /\ [Next]_vars => Settled'
    BY NextSettled
  <1> QED
    BY <1>1, <1>2, TypeCorrect, PTL DEF Spec

\* While the database answers, no interleaving of requests, worker and restart
\* strands a row that has not ended.
THEOREM NoRowStranded == ASSUME MaxDbFaults = 0 PROVE Spec => []LiveRowHasOwner
  <1>1. Settled => LiveRowHasOwner
    BY DEF Settled
  <1> QED
    BY <1>1, AlwaysSettled, PTL

\* While the database answers, heartbeats of a job stop when it completes or
\* fails and its worker is gone.
THEOREM SettledIsQuiet == ASSUME MaxDbFaults = 0 PROVE Spec => []SettledJobIsQuiet
  <1>1. Settled => SettledJobIsQuiet
    BY DEF Settled
  <1> QED
    BY <1>1, AlwaysSettled, PTL

\* No step reopens an ended row, but for the two late writers.
LEMMA NextKeepsEnds ==
  MaxDbFaults = 0 /\ TypeOK /\ Shape /\ Settled /\ [Next]_vars => EndKept
  <1> SUFFICES ASSUME MaxDbFaults = 0, TypeOK, Shape, Settled, [Next]_vars
               PROVE  EndKept
    OBVIOUS
  <1> USE DEF TypeOK, Shape, Settled, EndKept, Status, InProgress, Ended, Txs, LastTxs, Work,
          Halts, Publish, Forget, Goto, Return, Raise, Fault, db, worker, calls,
          hub, process
  <1>1. ASSUME NEW j \in Jobs, StageUpload(j) PROVE EndKept
    BY <1>1 DEF StageUpload
  <1>2. ASSUME NEW j \in Jobs, InsertFails(j) PROVE EndKept
    BY <1>2 DEF InsertFails
  <1>3. ASSUME NEW j \in Jobs, InsertJob(j) PROVE EndKept
    BY <1>3 DEF InsertJob
  <1>4. ASSUME NEW j \in Jobs, DispatchJob(j) PROVE EndKept
    BY <1>4 DEF DispatchJob
  <1>5. ASSUME NEW j \in Jobs, RefreshFails(j) PROVE EndKept
    BY <1>5 DEF RefreshFails
  <1>6. ASSUME NEW j \in Jobs, Claim(j) PROVE EndKept
    BY <1>6 DEF Claim
  <1>7. ASSUME NEW j \in Jobs, LoadLive(j) PROVE EndKept
    BY <1>7 DEF LoadLive
  <1>8. ASSUME NEW j \in Jobs, LoadHalted(j) PROVE EndKept
    BY <1>8 DEF LoadHalted
  <1>9. ASSUME NEW j \in Jobs, CommitStage(j) PROVE EndKept
    BY <1>9 DEF CommitStage, Apply, Proceed, Writes, Silent
  <1>10. ASSUME NEW j \in Jobs, CommitStale(j) PROVE EndKept
    BY <1>10 DEF CommitStale, Proceed, MayNoop
  <1>11. ASSUME NEW j \in Jobs, PublishStage(j) PROVE EndKept
    BY <1>11 DEF PublishStage, Proceed, Writes
  <1>12. ASSUME NEW j \in Jobs, ProbeRejects(j) PROVE EndKept
    BY <1>12 DEF ProbeRejects
  <1>13. ASSUME NEW j \in Jobs, Probe(j) PROVE EndKept
    BY <1>13 DEF Probe
  <1>14. ASSUME NEW j \in Jobs, Fetch(j) PROVE EndKept
    BY <1>14 DEF Fetch
  <1>15. ASSUME NEW j \in Jobs, Export(j) PROVE EndKept
    BY <1>15 DEF Export
  <1>16. ASSUME NEW j \in Jobs, Resolve(j) PROVE EndKept
    BY <1>16 DEF Resolve
  <1>17. ASSUME NEW j \in Jobs, WorkFails(j) PROVE EndKept
    BY <1>17 DEF WorkFails
  <1>18. ASSUME NEW j \in Jobs, GpuDone(j) PROVE EndKept
    BY <1>18 DEF GpuDone
  <1>19. ASSUME NEW j \in Jobs, GpuCold(j) PROVE EndKept
    BY <1>19 DEF GpuCold
  <1>20. ASSUME NEW j \in Jobs, GpuBusy(j) PROVE EndKept
    BY <1>20 DEF GpuBusy
  <1>21. ASSUME NEW j \in Jobs, DbFault(j) PROVE EndKept
    BY <1>21 DEF DbFault
  <1>22. ASSUME NEW j \in Jobs, CommitAckLost(j) PROVE EndKept
    BY <1>22 DEF CommitAckLost, Apply, Writes
  <1>23. ASSUME NEW j \in Jobs, CancelLoad(j) PROVE EndKept
    BY <1>23 DEF CancelLoad
  <1>24. ASSUME NEW j \in Jobs, CancelCommit(j) PROVE EndKept
    BY <1>24 DEF CancelCommit
  <1>25. ASSUME NEW j \in Jobs, CancelAnswer(j) PROVE EndKept
    BY <1>25 DEF CancelAnswer
  <1>26. ASSUME NEW j \in Jobs, CancelUnanswered(j) PROVE EndKept
    BY <1>26 DEF CancelUnanswered
  <1>27. ASSUME NEW j \in Jobs, DeleteLoad(j) PROVE EndKept
    BY <1>27 DEF DeleteLoad
  <1>28. ASSUME NEW j \in Jobs, DeleteCommit(j) PROVE EndKept
    BY <1>28 DEF DeleteCommit
  <1>29. ASSUME NEW j \in Jobs, DeleteAckLost(j) PROVE EndKept
    BY <1>29 DEF DeleteAckLost
  <1>30. ASSUME NEW j \in Jobs, DeleteCleanup(j) PROVE EndKept
    BY <1>30 DEF DeleteCleanup
  <1>31. CASE ClearLoad
    BY <1>31 DEF ClearLoad
  <1>32. CASE ClearCommit
    BY <1>32 DEF ClearCommit
  <1>33. CASE ClearAckLost
    BY <1>33 DEF ClearAckLost
  <1>34. CASE ClearCleanup
    BY <1>34 DEF ClearCleanup
  <1>35. CASE Crash
    BY <1>35 DEF Crash
  <1>36. CASE ReconcileRows
    BY <1>36 DEF ReconcileRows
  <1>37. CASE ReconcileDispatch
    BY <1>37 DEF ReconcileDispatch
  <1>38. CASE UNCHANGED vars
    BY <1>38 DEF vars
  <1> QED
    BY <1>1, <1>2, <1>3, <1>4, <1>5, <1>6, <1>7, <1>8, <1>9, <1>10, <1>11,
       <1>12, <1>13, <1>14, <1>15, <1>16, <1>17, <1>18, <1>19, <1>20, <1>21,
       <1>22, <1>23, <1>24, <1>25, <1>26, <1>27, <1>28, <1>29, <1>30, <1>31,
       <1>32, <1>33, <1>34, <1>35, <1>36, <1>37, <1>38
    DEF Next, Create, Worker, Transact, Compute, GpuWindow, Cancel, Delete,
        ClearFailed, Reconcile

\* While the database answers, a row that has ended keeps its status until it is
\* removed, but for the two writers that were at work before.
THEOREM EndsStay == ASSUME MaxDbFaults = 0 PROVE Spec => EndedJobStays
  <1>1. TypeOK /\ Shape /\ Settled /\ [Next]_vars => [EndKept]_vars
    BY NextKeepsEnds
  <1> QED
    BY <1>1, AlwaysSettled, PTL DEF Spec, EndedJobStays

-----------------------------------------------------------------------------
(* The promise *)

\* A worker looks at a row that has ended only to fail it after its own commit
\* went unacknowledged.
Answered ==
  \A j \in Jobs :
    /\ seen[j] \in Ended => tx[j] = "failed"
    /\ status[j] = "completed" /\ pc[j] # "none" =>
         tx[j] = "failed" \/ (pc[j] = "publish" /\ tx[j] = "completed")

\* Every step keeps what an open transaction has loaded consistent with its kind.
LEMMA NextAnswered ==
  TypeOK /\ Shape /\ Servable /\ Answered /\ [Next]_vars => Answered'
  <1> SUFFICES ASSUME TypeOK, Shape, Servable, Answered, [Next]_vars
               PROVE  Answered'
    OBVIOUS
  <1> USE DEF TypeOK, Shape, Servable, Answered, Status, InProgress, Ended, Txs,
          LastTxs, Work, Halts, Publish, Forget, Goto, Return, Raise, Fault, db,
          worker, calls, hub, process
  <1>1. ASSUME NEW j \in Jobs, StageUpload(j) PROVE Answered'
    BY <1>1 DEF StageUpload
  <1>2. ASSUME NEW j \in Jobs, InsertJob(j) PROVE Answered'
    BY <1>2 DEF InsertJob
  <1>3. ASSUME NEW j \in Jobs, InsertFails(j) PROVE Answered'
    BY <1>3 DEF InsertFails
  <1>4. ASSUME NEW j \in Jobs, DispatchJob(j) PROVE Answered'
    BY <1>4 DEF DispatchJob
  <1>5. ASSUME NEW j \in Jobs, RefreshFails(j) PROVE Answered'
    BY <1>5 DEF RefreshFails
  <1>6. ASSUME NEW j \in Jobs, Claim(j) PROVE Answered'
    BY <1>6 DEF Claim
  <1>7. ASSUME NEW j \in Jobs, LoadLive(j) PROVE Answered'
    BY <1>7 DEF LoadLive
  <1>8. ASSUME NEW j \in Jobs, LoadHalted(j) PROVE Answered'
    BY <1>8 DEF LoadHalted
  <1>9. ASSUME NEW j \in Jobs, CommitStage(j) PROVE Answered'
    BY <1>9 DEF CommitStage, Apply, Proceed, Writes, Silent
  <1>10. ASSUME NEW j \in Jobs, CommitStale(j) PROVE Answered'
    BY <1>10 DEF CommitStale, Proceed, MayNoop
  <1>11. ASSUME NEW j \in Jobs, PublishStage(j) PROVE Answered'
    BY <1>11 DEF PublishStage, Proceed, Writes
  <1>12. ASSUME NEW j \in Jobs, Probe(j) PROVE Answered'
    BY <1>12 DEF Probe
  <1>13. ASSUME NEW j \in Jobs, ProbeRejects(j) PROVE Answered'
    BY <1>13 DEF ProbeRejects
  <1>14. ASSUME NEW j \in Jobs, Fetch(j) PROVE Answered'
    BY <1>14 DEF Fetch
  <1>15. ASSUME NEW j \in Jobs, Export(j) PROVE Answered'
    BY <1>15 DEF Export
  <1>16. ASSUME NEW j \in Jobs, Resolve(j) PROVE Answered'
    BY <1>16 DEF Resolve
  <1>17. ASSUME NEW j \in Jobs, WorkFails(j) PROVE Answered'
    BY <1>17 DEF WorkFails
  <1>18. ASSUME NEW j \in Jobs, GpuDone(j) PROVE Answered'
    BY <1>18 DEF GpuDone
  <1>19. ASSUME NEW j \in Jobs, GpuCold(j) PROVE Answered'
    BY <1>19 DEF GpuCold
  <1>20. ASSUME NEW j \in Jobs, GpuBusy(j) PROVE Answered'
    BY <1>20 DEF GpuBusy
  <1>21. ASSUME NEW j \in Jobs, DbFault(j) PROVE Answered'
    BY <1>21 DEF DbFault
  <1>22. ASSUME NEW j \in Jobs, CommitAckLost(j) PROVE Answered'
    BY <1>22 DEF CommitAckLost, Apply, Writes
  <1>23. ASSUME NEW j \in Jobs, CancelLoad(j) PROVE Answered'
    BY <1>23 DEF CancelLoad
  <1>24. ASSUME NEW j \in Jobs, CancelCommit(j) PROVE Answered'
    BY <1>24 DEF CancelCommit
  <1>25. ASSUME NEW j \in Jobs, CancelAnswer(j) PROVE Answered'
    BY <1>25 DEF CancelAnswer
  <1>26. ASSUME NEW j \in Jobs, CancelUnanswered(j) PROVE Answered'
    BY <1>26 DEF CancelUnanswered
  <1>27. ASSUME NEW j \in Jobs, DeleteLoad(j) PROVE Answered'
    BY <1>27 DEF DeleteLoad
  <1>28. ASSUME NEW j \in Jobs, DeleteCommit(j) PROVE Answered'
    BY <1>28 DEF DeleteCommit
  <1>29. ASSUME NEW j \in Jobs, DeleteAckLost(j) PROVE Answered'
    BY <1>29 DEF DeleteAckLost
  <1>30. ASSUME NEW j \in Jobs, DeleteCleanup(j) PROVE Answered'
    BY <1>30 DEF DeleteCleanup
  <1>31. CASE ClearLoad
    BY <1>31 DEF ClearLoad
  <1>32. CASE ClearCommit
    BY <1>32 DEF ClearCommit
  <1>33. CASE ClearAckLost
    BY <1>33 DEF ClearAckLost
  <1>34. CASE ClearCleanup
    BY <1>34 DEF ClearCleanup
  <1>35. CASE Crash
    BY <1>35 DEF Crash
  <1>36. CASE ReconcileRows
    BY <1>36 DEF ReconcileRows
  <1>37. CASE ReconcileDispatch
    BY <1>37 DEF ReconcileDispatch
  <1>38. CASE UNCHANGED vars
    BY <1>38 DEF vars
  <1> QED
    BY <1>1, <1>2, <1>3, <1>4, <1>5, <1>6, <1>7, <1>8, <1>9, <1>10, <1>11,
       <1>12, <1>13, <1>14, <1>15, <1>16, <1>17, <1>18, <1>19, <1>20, <1>21,
       <1>22, <1>23, <1>24, <1>25, <1>26, <1>27, <1>28, <1>29, <1>30, <1>31,
       <1>32, <1>33, <1>34, <1>35, <1>36, <1>37, <1>38
    DEF Next, Create, Worker, Transact, Compute, GpuWindow, Cancel, Delete,
        ClearFailed, Reconcile

\* A worker's commit ends a live job, or is the late write that the promise
\* allows, or leaves the phase as it is.
LEMMA CommitPromise ==
  ASSUME TypeOK, Shape, Answered, NEW j \in Jobs,
         pc[j] = "commit", status[j] # "absent", Apply(j),
         birth' = birth, seen' = [seen EXCEPT ![j] = "none"]
  PROVE  \/ Phase' = Phase /\ Late' = Late
         \/ Promise!End(j)
         \/ Promise!Reopen(j)
  <1> DEFINE p == IF status'[j] \in Ended THEN "ended" ELSE "live"
  <1>1. Writes(tx[j]) \in Status
    BY DEF TypeOK, Shape, Writes, Txs, Status, InProgress, Ended
  <1>2. /\ status' = [status EXCEPT ![j] = status'[j]]
        /\ status'[j] \in Status
        /\ status'[j] \in {status[j], Writes(tx[j])}
    BY <1>1 DEF Apply, TypeOK
  <1>3. Phase' = [Phase EXCEPT ![j] = p]
    BY <1>2 DEF Phase, TypeOK, Status, InProgress, Ended
  <1>4. Late' = Late \ {j}
    BY <1>2 DEF Late, TypeOK, InProgress
  <1>5. Phase[j] = IF status[j] \in Ended THEN "ended" ELSE "live"
    BY DEF Phase
  <1>6. Phase = [Phase EXCEPT ![j] = Phase[j]]
    BY DEF Phase
  <1>7. CASE status[j] \notin Ended
    <2>1. Late' = Late
      BY <1>4, <1>7 DEF Late
    <2> QED
      BY <1>3, <1>5, <1>6, <1>7, <2>1 DEF Promise!End
  <1>8. CASE j \in Late
    BY <1>3, <1>4, <1>5, <1>6, <1>8 DEF Late, Promise!Reopen
  <1>9. CASE status[j] \in Ended /\ j \notin Late
    <2>1. seen[j] \in Ended
      BY <1>9 DEF Late, Shape, TypeOK, Status
    <2>2. status'[j] \in Ended
      BY <1>2, <1>9, <2>1 DEF Answered, Writes, Ended
    <2>3. Phase' = Phase
      BY <1>3, <1>5, <1>6, <1>9, <2>2
    <2> QED
      BY <1>4, <1>9, <2>3
  <1> QED
    BY <1>7, <1>8, <1>9

\* Every step of the life cycle is a step of the promise or none.
LEMMA StepPromise ==
  TypeOK /\ Shape /\ Servable /\ Answered /\ [Next]_vars
    => [Promise!PromiseNext]_(Promise!promise)
  <1> SUFFICES ASSUME TypeOK, Shape, Servable, Answered, [Next]_vars
               PROVE  [Promise!PromiseNext]_(Promise!promise)
    OBVIOUS
  <1> DEFINE Same == Phase' = Phase /\ Late' = Late
  <1>0. Same => [Promise!PromiseNext]_(Promise!promise)
    BY DEF Promise!promise
  <1> USE DEF TypeOK, Shape, Servable, Answered, Status, InProgress, Ended, Txs,
          LastTxs, Work, Halts, Publish, Forget, Goto, Return, Raise, Fault, db,
          worker, calls, hub, process, Phase, Late
  <1>1. ASSUME NEW j \in Jobs, StageUpload(j) PROVE Same
    BY <1>1 DEF StageUpload
  <1>2. ASSUME NEW j \in Jobs, InsertJob(j) PROVE Promise!Begin(j)
    <2>1. status[j] = "absent" /\ Phase[j] = "unborn"
      BY <1>2 DEF InsertJob
    <2>2. Phase' = [Phase EXCEPT ![j] = "live"]
      BY <1>2 DEF InsertJob
    <2>3. Late' = Late
      BY <1>2, <2>1 DEF InsertJob
    <2> QED
      BY <2>1, <2>2, <2>3 DEF Promise!Begin
  <1>3. ASSUME NEW j \in Jobs, InsertFails(j) PROVE Promise!Begin(j) \/ Promise!Remove({j})
    <2>1. status[j] = "absent" /\ Phase[j] = "unborn"
      BY <1>3 DEF InsertFails
    <2>2. Late' = Late /\ j \notin Late
      BY <1>3, <2>1 DEF InsertFails
    <2>3. CASE status'[j] = "queued"
      <3>1. status' = [status EXCEPT ![j] = "queued"]
        BY <1>3, <2>3 DEF InsertFails
      <3>2. Phase' = [Phase EXCEPT ![j] = "live"]
        BY <1>3, <3>1 DEF InsertFails
      <3> QED
        BY <2>1, <2>2, <3>2 DEF Promise!Begin
    <2>4. CASE status'[j] = "absent"
      <3>1. Phase' = [i \in Jobs |-> IF i \in {j} THEN "gone" ELSE Phase[i]]
        BY <1>3, <2>4 DEF InsertFails
      <3> QED
        BY <2>2, <3>1 DEF Promise!Remove
    <2> QED
      BY <1>3, <2>3, <2>4 DEF InsertFails
  <1>4. ASSUME NEW j \in Jobs, DispatchJob(j) PROVE Same
    BY <1>4 DEF DispatchJob
  <1>5. ASSUME NEW j \in Jobs, RefreshFails(j) PROVE Same
    BY <1>5 DEF RefreshFails
  <1>6. ASSUME NEW j \in Jobs, Claim(j) PROVE Same
    BY <1>6 DEF Claim
  <1>7. ASSUME NEW j \in Jobs, LoadLive(j) PROVE Same
    BY <1>7 DEF LoadLive
  <1>8. ASSUME NEW j \in Jobs, LoadHalted(j) PROVE Same
    BY <1>8 DEF LoadHalted
  <1>9. ASSUME NEW j \in Jobs, CommitStage(j) PROVE Same \/ Promise!End(j) \/ Promise!Reopen(j)
    <2>1. Apply(j) /\ seen' = [seen EXCEPT ![j] = "none"]
      BY <1>9 DEF CommitStage, Proceed
    <2> QED
      BY <1>9, <2>1, CommitPromise DEF CommitStage
  <1>10. ASSUME NEW j \in Jobs, CommitStale(j) PROVE Same
    BY <1>10 DEF CommitStale, Proceed, MayNoop
  <1>11. ASSUME NEW j \in Jobs, PublishStage(j) PROVE Same
    BY <1>11 DEF PublishStage, Proceed, Writes
  <1>12. ASSUME NEW j \in Jobs, Probe(j) PROVE Same
    BY <1>12 DEF Probe
  <1>13. ASSUME NEW j \in Jobs, ProbeRejects(j) PROVE Same
    BY <1>13 DEF ProbeRejects
  <1>14. ASSUME NEW j \in Jobs, Fetch(j) PROVE Same
    BY <1>14 DEF Fetch
  <1>15. ASSUME NEW j \in Jobs, Export(j) PROVE Same
    BY <1>15 DEF Export
  <1>16. ASSUME NEW j \in Jobs, Resolve(j) PROVE Same
    BY <1>16 DEF Resolve
  <1>17. ASSUME NEW j \in Jobs, WorkFails(j) PROVE Same
    BY <1>17 DEF WorkFails
  <1>18. ASSUME NEW j \in Jobs, GpuDone(j) PROVE Same
    BY <1>18 DEF GpuDone
  <1>19. ASSUME NEW j \in Jobs, GpuCold(j) PROVE Same
    BY <1>19 DEF GpuCold
  <1>20. ASSUME NEW j \in Jobs, GpuBusy(j) PROVE Same
    BY <1>20 DEF GpuBusy
  <1>21. ASSUME NEW j \in Jobs, DbFault(j) PROVE Same \/ Promise!Reopen(j)
    BY <1>21 DEF DbFault, Promise!Reopen
  <1>22. ASSUME NEW j \in Jobs, CommitAckLost(j) PROVE Same \/ Promise!End(j) \/ Promise!Reopen(j)
    <2>1. Apply(j) /\ seen' = [seen EXCEPT ![j] = "none"]
      BY <1>22 DEF CommitAckLost
    <2> QED
      BY <1>22, <2>1, CommitPromise DEF CommitAckLost
  <1>23. ASSUME NEW j \in Jobs, CancelLoad(j) PROVE Same
    BY <1>23 DEF CancelLoad
  <1>24. ASSUME NEW j \in Jobs, CancelCommit(j) PROVE Same \/ Promise!End(j)
    <2>1. CASE status[j] \in Ended \cup {"absent"}
      BY <1>24, <2>1 DEF CancelCommit
    <2>2. CASE status[j] \notin Ended \cup {"absent"}
      <3>1. status' = [status EXCEPT ![j] = "cancelled"]
        BY <1>24, <2>2 DEF CancelCommit
      <3>2. Phase[j] = "live"
        BY <2>2
      <3>3. Phase' = [Phase EXCEPT ![j] = "ended"]
        BY <1>24, <3>1 DEF CancelCommit
      <3>4. Late' \in {Late, Late \cup {j}}
        BY <1>24, <2>2 DEF CancelCommit
      <3> QED
        BY <3>2, <3>3, <3>4 DEF Promise!End
    <2> QED
      BY <2>1, <2>2
  <1>25. ASSUME NEW j \in Jobs, CancelAnswer(j) PROVE Same
    BY <1>25 DEF CancelAnswer
  <1>26. ASSUME NEW j \in Jobs, CancelUnanswered(j) PROVE Same
    BY <1>26 DEF CancelUnanswered
  <1>27. ASSUME NEW j \in Jobs, DeleteLoad(j) PROVE Same
    BY <1>27 DEF DeleteLoad
  <1>28. ASSUME NEW j \in Jobs, DeleteCommit(j) PROVE Promise!Remove({j})
    BY <1>28 DEF DeleteCommit, Promise!Remove
  <1>29. ASSUME NEW j \in Jobs, DeleteAckLost(j) PROVE Promise!Remove({j})
    BY <1>29 DEF DeleteAckLost, Promise!Remove
  <1>30. ASSUME NEW j \in Jobs, DeleteCleanup(j) PROVE Same
    BY <1>30 DEF DeleteCleanup
  <1>31. ASSUME ClearLoad PROVE Same
    BY <1>31 DEF ClearLoad
  <1>32. ASSUME ClearCommit PROVE Same \/ Promise!Remove(clearing)
    BY <1>32 DEF ClearCommit, Promise!Remove
  <1>33. ASSUME ClearAckLost PROVE Same \/ Promise!Remove(clearing)
    BY <1>33 DEF ClearAckLost, Promise!Remove
  <1>34. ASSUME ClearCleanup PROVE Same
    BY <1>34 DEF ClearCleanup
  <1>35. ASSUME Crash PROVE Promise!Restart
    <2> DEFINE lost == {j \in Jobs : birth[j] = "staged"}
    <2>1. Late' = {}
      BY <1>35 DEF Crash
    <2>2. lost \in SUBSET {j \in Jobs : Phase[j] = "unborn"}
      OBVIOUS
    <2>3. Phase' = [j \in Jobs |-> IF j \in lost THEN "gone" ELSE Phase[j]]
      BY <1>35 DEF Crash
    <2> HIDE DEF lost, Phase, Late
    <2>4. \E L \in SUBSET {j \in Jobs : Phase[j] = "unborn"} :
            Phase' = [j \in Jobs |-> IF j \in L THEN "gone" ELSE Phase[j]]
      <3> WITNESS lost \in SUBSET {j \in Jobs : Phase[j] = "unborn"}
      <3> QED
        BY <2>2, <2>3
    <2> QED
      BY <2>1, <2>4 DEF Promise!Restart
  <1>36. ASSUME ReconcileRows PROVE Promise!FailOut({j \in Jobs : status[j] \in InProgress})
    <2> DEFINE cut == {j \in Jobs : status[j] \in InProgress}
    <2>1. \A j \in cut : Phase[j] = "live"
      OBVIOUS
    <2>2. Late' = Late
      BY <1>36 DEF ReconcileRows
    <2>3. Phase' = [j \in Jobs |-> IF j \in cut THEN "ended" ELSE Phase[j]]
      BY <1>36 DEF ReconcileRows
    <2> QED
      BY <2>1, <2>2, <2>3 DEF Promise!FailOut
  <1>37. ASSUME ReconcileDispatch PROVE Same
    BY <1>37 DEF ReconcileDispatch
  <1>38. ASSUME UNCHANGED vars PROVE Same
    BY <1>38 DEF vars
  <1>39. /\ clearing \in SUBSET Jobs
         /\ {j \in Jobs : status[j] \in InProgress} \in SUBSET Jobs
    OBVIOUS
  <1> HIDE DEF Same, TypeOK, Shape, Servable, Answered, Status, InProgress, Ended,
          Txs, LastTxs, Work, Halts, Publish, Forget, Goto, Return, Raise, Fault,
          db, worker, calls, hub, process, Phase, Late
  <1>40. CASE \E j \in Jobs : Create(j) \/ Worker(j)
    BY <1>0, <1>1, <1>2, <1>3, <1>4, <1>5, <1>6, <1>7, <1>8, <1>9, <1>10,
       <1>11, <1>12, <1>13, <1>14, <1>15, <1>16, <1>17, <1>18, <1>19, <1>20,
       <1>40 DEF Create, Worker, Transact, Compute, GpuWindow, Promise!PromiseNext
  <1>41. CASE \E j \in Jobs : \/ DbFault(j) \/ CommitAckLost(j) \/ Cancel(j)
                              \/ Delete(j)
    BY <1>0, <1>21, <1>22, <1>23, <1>24, <1>25, <1>26, <1>27, <1>28, <1>29,
       <1>30, <1>41 DEF Cancel, Delete, Promise!PromiseNext
  <1>42. CASE ClearFailed \/ Crash \/ Reconcile \/ UNCHANGED vars
    BY <1>0, <1>31, <1>32, <1>33, <1>34, <1>35, <1>36, <1>37, <1>38, <1>39,
       <1>42 DEF ClearFailed, Reconcile, Promise!PromiseNext
  <1> QED
    BY <1>40, <1>41, <1>42 DEF Next

\* The coordinator keeps the promise: whatever requests, worker, database faults
\* and restarts do, an ended job is reopened only by a transaction that was open
\* when it ended, and a removed job does not come back.
THEOREM PromiseKept == Spec => KeepsPromise
  <1>1. Init => Promise!PromiseInit
    BY DEF Init, Promise!PromiseInit, Phase, Late, Ended
  <1>2. Init => Servable /\ Answered
    BY DEF Init, Servable, CompletedServable, Answered, Ended
  <1> QED
    BY <1>1, <1>2, StepPromise, NextAnswered, NextServable, TypeCorrect, PTL
    DEF Spec, KeepsPromise, Promise!PromiseSpec
=============================================================================
