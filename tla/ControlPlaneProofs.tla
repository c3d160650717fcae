-------------------------- MODULE ControlPlaneProofs --------------------------
(***************************************************************************)
(* Proofs about ControlPlane, for every value of its constants.            *)
(***************************************************************************)
EXTENDS ControlPlane, TLAPS

\* Messages for first deliveries and for retries are messages.
LEMMA MessageType ==
  /\ \A r \in Runs : FirstDelivery(r) \in Message
  /\ \A m \in Message : m.run \in Runs /\ m.retries \in 0..MaxRetries
  /\ \A m \in Message : m.retries < MaxRetries => [m EXCEPT !.retries = @ + 1] \in Message
BY BoundAssumption DEF Message, FirstDelivery

\* The empty tables, queue and processes are well typed.
LEMMA InitTypeOK == Init => TypeOK
<1> SUFFICES ASSUME Init PROVE TypeOK
  OBVIOUS
<1>1. StoreTypeOK
  BY DEF Init, StoreInit, StoreTypeOK, CampaignRow, RunRow, Schedule
<1>2. BrokerTypeOK
  BY DEF Init, BrokerInit, BrokerTypeOK
<1>3. ApiTypeOK
  BY DEF Init, ApiInit, ApiTypeOK, IdleRequest
<1>4. SchedTypeOK
  BY DEF Init, SchedInit, SchedTypeOK, Scheduled
<1>5. WorkerTypeOK
  BY DEF Init, WorkerInit, WorkerTypeOK, IdleWorker
<1>6. QED
  BY <1>1, <1>2, <1>3, <1>4, <1>5 DEF TypeOK

\* Nothing exists initially, so the parts of IndInv hold vacuously.
LEMMA InitIndInv == Init => IndInv
<1> SUFFICES ASSUME Init PROVE IndInv
  OBVIOUS
<1>1. \A r \in Runs : run[r].status = "none"
  BY DEF Init, StoreInit
<1>2. RunsHaveCampaigns /\ UnfinishedRunHasCarrier
  BY <1>1 DEF RunsHaveCampaigns, UnfinishedRunHasCarrier, Opened
<1>3. RequestsHoldRows
  BY DEF Init, ApiInit, RequestsHoldRows, IdleRequest
<1>4. ClaimsHold
  BY DEF Init, SchedInit, ClaimsHold, Scheduled
<1>5. MessagesHoldRuns
  BY DEF Init, BrokerInit, WorkerInit, MessagesHoldRuns, IdleWorker, Busy, At
<1>6. ClaimedOnce
  BY <1>1, <1>4 DEF ClaimedOnce, ClaimsHold, Runs
<1>7. QED
  BY InitTypeOK, <1>2, <1>3, <1>4, <1>5, <1>6 DEF IndInv

-----------------------------------------------------------------------------
(* Type correctness.                                                        *)

\* The row of a completed run.
LEMMA MarkCompletedType ==
  ASSUME StoreTypeOK, NEW r, MarkCompleted(r)
  PROVE  run' \in [Runs -> RunRow] /\ campaign' \in [Campaigns -> CampaignRow]
<1>1. ASSUME NEW x \in Runs PROVE WithFinding(run[x]) \in RunRow
  <2>1. run[x] \in RunRow
    BY DEF StoreTypeOK
  <2>2. QED
    BY <2>1 DEF RunRow, RunStatus, WithFinding
<1>2. run' \in [Runs -> RunRow]
  BY <1>1 DEF MarkCompleted, StoreTypeOK
<1>3. campaign' \in [Campaigns -> CampaignRow]
  <2>1. campaign' = [campaign EXCEPT ![run[r].campaign].status = "completed"]
    BY DEF MarkCompleted
  <2>2. QED
    BY <2>1 DEF StoreTypeOK, CampaignRow, CampaignStatus
<1>4. QED
  BY <1>2, <1>3

\* Every step of every process keeps the types.
LEMMA NextTypeOK == IndInv /\ [Next]_vars => TypeOK'
<1> SUFFICES ASSUME TypeOK, RequestsHoldRows, MessagesHoldRuns, [Next]_vars PROVE TypeOK'
  BY DEF IndInv
<1>1. ASSUME NEW c \in Campaigns, NEW s \in Schedule,
       CreateCampaign(c, s), UNCHANGED <<sched, worker>>
       PROVE TypeOK'
  <2>1. ApiTypeOK'
    BY <1>1 DEF TypeOK, ApiTypeOK, CreateCampaign
  <2>2. StoreTypeOK'
    BY <1>1 DEF TypeOK, StoreTypeOK, CampaignRow, RunRow, tables, history, CreateCampaign, CampaignStatus
  <2>3. BrokerTypeOK'
    BY <1>1 DEF TypeOK, BrokerTypeOK, broker, CreateCampaign
  <2>4. QED
    BY <1>1, <2>1, <2>2, <2>3 DEF TypeOK, SchedTypeOK, WorkerTypeOK
<1>2. ASSUME NEW q \in Requests, NEW c \in Campaigns, NEW op \in {"cancel", "execute"},
       ApiLoad(q, c, op), UNCHANGED <<sched, worker>>
       PROVE TypeOK'
  <2>1. ApiTypeOK'
    BY <1>2 DEF TypeOK, ApiTypeOK, ApiLoad, StoreTypeOK, CampaignRow
  <2>2. StoreTypeOK'
    BY <1>2 DEF TypeOK, StoreTypeOK, CampaignRow, RunRow, tables, history, ApiLoad
  <2>3. BrokerTypeOK'
    BY <1>2 DEF TypeOK, BrokerTypeOK, broker, ApiLoad
  <2>4. QED
    BY <1>2, <2>1, <2>2, <2>3 DEF TypeOK, SchedTypeOK, WorkerTypeOK
<1>3. ASSUME NEW q \in Requests,
       ApiReject(q), UNCHANGED <<sched, worker>>
       PROVE TypeOK'
  <2>1. ApiTypeOK'
    BY <1>3 DEF TypeOK, ApiTypeOK, ApiReject, IdleRequest
  <2>2. StoreTypeOK'
    BY <1>3 DEF TypeOK, StoreTypeOK, CampaignRow, RunRow, tables, history, ApiReject
  <2>3. BrokerTypeOK'
    BY <1>3 DEF TypeOK, BrokerTypeOK, broker, ApiReject
  <2>4. QED
    BY <1>3, <2>1, <2>2, <2>3 DEF TypeOK, SchedTypeOK, WorkerTypeOK
<1>4. ASSUME NEW q \in Requests,
       ApiCancel(q), UNCHANGED <<sched, worker>>
       PROVE TypeOK'
  <2>1. ApiTypeOK'
    BY <1>4 DEF TypeOK, ApiTypeOK, ApiCancel, IdleRequest
  <2>2. StoreTypeOK'
    BY <1>4 DEF TypeOK, StoreTypeOK, CampaignRow, RunRow, tables, history, ApiCancel, CampaignStatus
  <2>3. BrokerTypeOK'
    BY <1>4 DEF TypeOK, BrokerTypeOK, broker, ApiCancel
  <2>4. QED
    BY <1>4, <2>1, <2>2, <2>3 DEF TypeOK, SchedTypeOK, WorkerTypeOK
<1>5. ASSUME NEW q \in Requests, NEW r \in ApiRuns,
       ApiExecute(q, r), UNCHANGED <<sched, worker>>
       PROVE TypeOK'
  <2>1. ApiTypeOK'
    BY <1>5 DEF TypeOK, ApiTypeOK, ApiExecute
  <2>2. StoreTypeOK'
    BY <1>5 DEF TypeOK, StoreTypeOK, CampaignRow, RunRow, tables, history, ApiExecute, NewRun, CampaignStatus, RunStatus, QueuedFrom, Runs, Executing, RequestsHoldRows
  <2>3. BrokerTypeOK'
    BY <1>5 DEF TypeOK, BrokerTypeOK, broker, ApiExecute
  <2>4. QED
    BY <1>5, <2>1, <2>2, <2>3 DEF TypeOK, SchedTypeOK, WorkerTypeOK
<1>6. ASSUME NEW q \in Requests,
       ApiPublish(q), UNCHANGED <<sched, worker>>
       PROVE TypeOK'
  <2>1. ApiTypeOK'
    BY <1>6 DEF TypeOK, ApiTypeOK, ApiPublish, IdleRequest
  <2>2. StoreTypeOK'
    BY <1>6, MessageType DEF TypeOK, StoreTypeOK, CampaignRow, RunRow, tables, history, ApiPublish
  <2>3. BrokerTypeOK'
    BY <1>6, MessageType DEF TypeOK, BrokerTypeOK, broker, ApiPublish, Publish, Put, RequestsHoldRows, Runs
  <2>4. QED
    BY <1>6, <2>1, <2>2, <2>3 DEF TypeOK, SchedTypeOK, WorkerTypeOK
<1>7. ASSUME NEW q \in Requests,
       ApiFails(q), UNCHANGED <<sched, worker>>
       PROVE TypeOK'
  <2>1. ApiTypeOK'
    BY <1>7 DEF TypeOK, ApiTypeOK, ApiFails, IdleRequest
  <2>2. StoreTypeOK'
    BY <1>7 DEF TypeOK, StoreTypeOK, CampaignRow, RunRow, tables, history, ApiFails, Fault, RequestsHoldRows, Runs
  <2>3. BrokerTypeOK'
    BY <1>7 DEF TypeOK, BrokerTypeOK, broker, ApiFails
  <2>4. QED
    BY <1>7, <2>1, <2>2, <2>3 DEF TypeOK, SchedTypeOK, WorkerTypeOK
<1>8. ASSUME NEW c \in Campaigns,
       ClockTick(c), UNCHANGED <<api, worker>>
       PROVE TypeOK'
  <2>1. SchedTypeOK'
    BY <1>8 DEF TypeOK, SchedTypeOK, ClockTick
  <2>2. StoreTypeOK'
    BY <1>8 DEF TypeOK, StoreTypeOK, CampaignRow, RunRow, tables, history, ClockTick, Schedule
  <2>3. BrokerTypeOK'
    BY <1>8 DEF TypeOK, BrokerTypeOK, broker, ClockTick
  <2>4. QED
    BY <1>8, <2>1, <2>2, <2>3 DEF TypeOK, ApiTypeOK, WorkerTypeOK
<1>9. ASSUME NEW s \in Schedulers,
       SchedBoot(s), UNCHANGED <<api, worker>>
       PROVE TypeOK'
  <2>1. SchedTypeOK'
    BY <1>9 DEF TypeOK, SchedTypeOK, SchedBoot, Scheduled
  <2>2. StoreTypeOK'
    BY <1>9 DEF TypeOK, StoreTypeOK, CampaignRow, RunRow, tables, history, SchedBoot
  <2>3. BrokerTypeOK'
    BY <1>9 DEF TypeOK, BrokerTypeOK, broker, SchedBoot
  <2>4. QED
    BY <1>9, <2>1, <2>2, <2>3 DEF TypeOK, ApiTypeOK, WorkerTypeOK
<1>10. ASSUME NEW s \in Schedulers, NEW b \in SUBSET Campaigns,
       SchedSelect(s, b), UNCHANGED <<api, worker>>
       PROVE TypeOK'
  <2>1. SchedTypeOK'
    BY <1>10 DEF TypeOK, SchedTypeOK, SchedSelect, Scheduled
  <2>2. StoreTypeOK'
    BY <1>10 DEF TypeOK, StoreTypeOK, CampaignRow, RunRow, tables, history, SchedSelect
  <2>3. BrokerTypeOK'
    BY <1>10 DEF TypeOK, BrokerTypeOK, broker, SchedSelect
  <2>4. QED
    BY <1>10, <2>1, <2>2, <2>3 DEF TypeOK, ApiTypeOK, WorkerTypeOK
<1>11. ASSUME NEW s \in Schedulers, NEW open \in Openings(sched[s].batch),
       SchedCommit(s, open), UNCHANGED <<api, worker>>
       PROVE TypeOK'
  <2>1. SchedTypeOK'
    BY <1>11 DEF TypeOK, SchedTypeOK, SchedCommit, Scheduled, Openings, Fresh
  <2>2. StoreTypeOK'
    <3>1. sched[s].batch \subseteq Campaigns
      BY DEF TypeOK, SchedTypeOK
    <3>2. \A c \in Campaigns : NewRun(c) \in RunRow
      BY DEF NewRun, RunRow, RunStatus
    <3>3. run' \in [Runs -> RunRow]
      BY <1>11, <3>1, <3>2 DEF SchedCommit, TypeOK, StoreTypeOK
    <3>4. campaign' \in [Campaigns -> CampaignRow]
      BY <1>11 DEF SchedCommit, TypeOK, StoreTypeOK, CampaignRow, CampaignStatus
    <3>5. QED
      BY <1>11, <3>3, <3>4 DEF SchedCommit, TypeOK, StoreTypeOK, history
  <2>3. BrokerTypeOK'
    BY <1>11 DEF TypeOK, BrokerTypeOK, broker, SchedCommit
  <2>4. QED
    BY <1>11, <2>1, <2>2, <2>3 DEF TypeOK, ApiTypeOK, WorkerTypeOK
<1>12. ASSUME NEW s \in Schedulers,
       SchedClaimFails(s), UNCHANGED <<api, worker>>
       PROVE TypeOK'
  <2>1. SchedTypeOK'
    BY <1>12 DEF TypeOK, SchedTypeOK, SchedClaimFails, Scheduled
  <2>2. StoreTypeOK'
    BY <1>12 DEF TypeOK, StoreTypeOK, CampaignRow, RunRow, tables, history, SchedClaimFails, Fault
  <2>3. BrokerTypeOK'
    BY <1>12 DEF TypeOK, BrokerTypeOK, broker, SchedClaimFails
  <2>4. QED
    BY <1>12, <2>1, <2>2, <2>3 DEF TypeOK, ApiTypeOK, WorkerTypeOK
<1>13. ASSUME NEW s \in Schedulers, NEW r \in SchedRuns,
       SchedDispatch(s, r), UNCHANGED <<api, worker>>
       PROVE TypeOK'
  <2>1. SchedTypeOK'
    BY <1>13 DEF TypeOK, SchedTypeOK, SchedDispatch, Scheduled
  <2>2. StoreTypeOK'
    BY <1>13, MessageType DEF TypeOK, StoreTypeOK, CampaignRow, RunRow, tables, history, SchedDispatch
  <2>3. BrokerTypeOK'
    BY <1>13, MessageType DEF TypeOK, BrokerTypeOK, broker, SchedDispatch, Publish, Put, Runs
  <2>4. QED
    BY <1>13, <2>1, <2>2, <2>3 DEF TypeOK, ApiTypeOK, WorkerTypeOK
<1>14. ASSUME NEW s \in Schedulers,
       SchedDispatchFails(s), UNCHANGED <<api, worker>>
       PROVE TypeOK'
  <2>1. SchedTypeOK'
    BY <1>14 DEF TypeOK, SchedTypeOK, SchedDispatchFails, Scheduled
  <2>2. StoreTypeOK'
    BY <1>14 DEF TypeOK, StoreTypeOK, CampaignRow, RunRow, tables, history, SchedDispatchFails, Fault, Runs, SchedTypeOK
  <2>3. BrokerTypeOK'
    BY <1>14 DEF TypeOK, BrokerTypeOK, broker, SchedDispatchFails
  <2>4. QED
    BY <1>14, <2>1, <2>2, <2>3 DEF TypeOK, ApiTypeOK, WorkerTypeOK
<1>15. ASSUME NEW s \in Schedulers,
       SchedCrash(s), UNCHANGED <<api, worker>>
       PROVE TypeOK'
  <2>1. SchedTypeOK'
    BY <1>15 DEF TypeOK, SchedTypeOK, SchedCrash, Scheduled
  <2>2. StoreTypeOK'
    BY <1>15 DEF TypeOK, StoreTypeOK, CampaignRow, RunRow, tables, history, SchedCrash, Fault, Runs, SchedTypeOK
  <2>3. BrokerTypeOK'
    BY <1>15 DEF TypeOK, BrokerTypeOK, broker, SchedCrash
  <2>4. QED
    BY <1>15, <2>1, <2>2, <2>3 DEF TypeOK, ApiTypeOK, WorkerTypeOK
<1>16. ASSUME NEW w \in Workers, NEW m \in Message,
       WorkerTake(w, m), UNCHANGED <<api, sched>>
       PROVE TypeOK'
  <2>1. WorkerTypeOK'
    BY <1>16 DEF TypeOK, WorkerTypeOK, WorkerTake, IdleWorker
  <2>2. StoreTypeOK'
    BY <1>16 DEF TypeOK, StoreTypeOK, CampaignRow, RunRow, tables, history, WorkerTake
  <2>3. BrokerTypeOK'
    BY <1>16 DEF TypeOK, BrokerTypeOK, broker, WorkerTake, Remove
  <2>4. QED
    BY <1>16, <2>1, <2>2, <2>3 DEF TypeOK, ApiTypeOK, SchedTypeOK
<1>17. ASSUME NEW w \in Workers,
       StartRun(w), UNCHANGED <<api, sched>>
       PROVE TypeOK'
  <2>1. WorkerTypeOK'
    BY <1>17 DEF TypeOK, WorkerTypeOK, StartRun, Goto
  <2>2. StoreTypeOK'
    BY <1>17 DEF TypeOK, StoreTypeOK, CampaignRow, RunRow, tables, history, StartRun, MarkBoth, CampaignStatus, RunStatus, RunOf
  <2>3. BrokerTypeOK'
    BY <1>17 DEF TypeOK, BrokerTypeOK, broker, StartRun
  <2>4. QED
    BY <1>17, <2>1, <2>2, <2>3 DEF TypeOK, ApiTypeOK, SchedTypeOK
<1>18. ASSUME NEW w \in Workers, NEW a \in BOOLEAN,
       StartFails(w, a), UNCHANGED <<api, sched>>
       PROVE TypeOK'
  <2>1. WorkerTypeOK'
    BY <1>18 DEF TypeOK, WorkerTypeOK, StartFails, Raise
  <2>2. StoreTypeOK'
    BY <1>18 DEF TypeOK, StoreTypeOK, CampaignRow, RunRow, tables, history, StartFails, MarkBoth, CampaignStatus, RunStatus, RunOf, Fault
  <2>3. BrokerTypeOK'
    BY <1>18 DEF TypeOK, BrokerTypeOK, broker, StartFails
  <2>4. QED
    BY <1>18, <2>1, <2>2, <2>3 DEF TypeOK, ApiTypeOK, SchedTypeOK
<1>19. ASSUME NEW w \in Workers,
       Complete(w), UNCHANGED <<api, sched>>
       PROVE TypeOK'
  <2>1. WorkerTypeOK'
    BY <1>19 DEF TypeOK, WorkerTypeOK, Complete, Goto
  <2>2. StoreTypeOK'
    BY <1>19, MarkCompletedType DEF TypeOK, StoreTypeOK, history, Complete
  <2>3. BrokerTypeOK'
    BY <1>19 DEF TypeOK, BrokerTypeOK, broker, Complete
  <2>4. QED
    BY <1>19, <2>1, <2>2, <2>3 DEF TypeOK, ApiTypeOK, SchedTypeOK
<1>20. ASSUME NEW w \in Workers,
       FetchFails(w), UNCHANGED <<api, sched>>
       PROVE TypeOK'
  <2>1. WorkerTypeOK'
    BY <1>20 DEF TypeOK, WorkerTypeOK, FetchFails, HandleUnread
  <2>2. StoreTypeOK'
    BY <1>20 DEF TypeOK, StoreTypeOK, CampaignRow, RunRow, tables, history, FetchFails
  <2>3. BrokerTypeOK'
    BY <1>20 DEF TypeOK, BrokerTypeOK, broker, FetchFails
  <2>4. QED
    BY <1>20, <2>1, <2>2, <2>3 DEF TypeOK, ApiTypeOK, SchedTypeOK
<1>21. ASSUME NEW w \in Workers, NEW e \in {"db", "task"}, NEW a \in BOOLEAN,
       CompleteFails(w, e, a), UNCHANGED <<api, sched>>
       PROVE TypeOK'
  <2>1. WorkerTypeOK'
    BY <1>21 DEF TypeOK, WorkerTypeOK, CompleteFails, Raise
  <2>2. StoreTypeOK'
    BY <1>21, MarkCompletedType DEF TypeOK, StoreTypeOK, tables, CompleteFails, Fault
  <2>3. BrokerTypeOK'
    BY <1>21 DEF TypeOK, BrokerTypeOK, broker, CompleteFails
  <2>4. QED
    BY <1>21, <2>1, <2>2, <2>3 DEF TypeOK, ApiTypeOK, SchedTypeOK
<1>22. ASSUME NEW w \in Workers,
       LoadFailed(w), UNCHANGED <<api, sched>>
       PROVE TypeOK'
  <2>1. WorkerTypeOK'
    BY <1>22 DEF TypeOK, WorkerTypeOK, LoadFailed
  <2>2. StoreTypeOK'
    BY <1>22 DEF TypeOK, StoreTypeOK, CampaignRow, RunRow, tables, history, LoadFailed
  <2>3. BrokerTypeOK'
    BY <1>22 DEF TypeOK, BrokerTypeOK, broker, LoadFailed
  <2>4. QED
    BY <1>22, <2>1, <2>2, <2>3 DEF TypeOK, ApiTypeOK, SchedTypeOK
<1>23. ASSUME NEW w \in Workers,
       RecordFailure(w), UNCHANGED <<api, sched>>
       PROVE TypeOK'
  <2>1. WorkerTypeOK'
    <3> DEFINE pc == IF worker[w].error = "db" THEN "retry" ELSE "done"
    <3>1. worker' = [worker EXCEPT ![w] = [worker[w] EXCEPT !.pc = pc, !.dirty = {}]]
      BY <1>23 DEF RecordFailure
    <3>2. pc \in {"retry", "done"}
      OBVIOUS
    <3>3. QED
      <4> HIDE DEF pc
      <4> QED
        BY <3>1, <3>2 DEF TypeOK, WorkerTypeOK
  <2>2. StoreTypeOK'
    BY <1>23 DEF TypeOK, StoreTypeOK, CampaignRow, RunRow, tables, history, RecordFailure, WriteFailed, CampaignStatus, RunStatus, RunOf
  <2>3. BrokerTypeOK'
    BY <1>23 DEF TypeOK, BrokerTypeOK, broker, RecordFailure
  <2>4. QED
    BY <1>23, <2>1, <2>2, <2>3 DEF TypeOK, ApiTypeOK, SchedTypeOK
<1>24. ASSUME NEW w \in Workers, NEW a \in BOOLEAN,
       RecordFailureFails(w, a), UNCHANGED <<api, sched>>
       PROVE TypeOK'
  <2>1. WorkerTypeOK'
    BY <1>24 DEF TypeOK, WorkerTypeOK, RecordFailureFails
  <2>2. StoreTypeOK'
    BY <1>24 DEF TypeOK, StoreTypeOK, CampaignRow, RunRow, tables, history, RecordFailureFails, WriteFailed, CampaignStatus, RunStatus, RunOf, Fault
  <2>3. BrokerTypeOK'
    BY <1>24 DEF TypeOK, BrokerTypeOK, broker, RecordFailureFails
  <2>4. QED
    BY <1>24, <2>1, <2>2, <2>3 DEF TypeOK, ApiTypeOK, SchedTypeOK
<1>25. ASSUME NEW w \in Workers,
       RefreshRun(w), UNCHANGED <<api, sched>>
       PROVE TypeOK'
  <2>1. WorkerTypeOK'
    BY <1>25 DEF TypeOK, WorkerTypeOK, RefreshRun, Goto
  <2>2. StoreTypeOK'
    BY <1>25 DEF TypeOK, StoreTypeOK, CampaignRow, RunRow, tables, history, RefreshRun
  <2>3. BrokerTypeOK'
    BY <1>25 DEF TypeOK, BrokerTypeOK, broker, RefreshRun
  <2>4. QED
    BY <1>25, <2>1, <2>2, <2>3 DEF TypeOK, ApiTypeOK, SchedTypeOK
<1>26. ASSUME NEW w \in Workers,
       RefreshFails(w), UNCHANGED <<api, sched>>
       PROVE TypeOK'
  <2>1. WorkerTypeOK'
    BY <1>26 DEF TypeOK, WorkerTypeOK, RefreshFails, Raise
  <2>2. StoreTypeOK'
    BY <1>26 DEF TypeOK, StoreTypeOK, CampaignRow, RunRow, tables, history, RefreshFails, Fault
  <2>3. BrokerTypeOK'
    BY <1>26 DEF TypeOK, BrokerTypeOK, broker, RefreshFails
  <2>4. QED
    BY <1>26, <2>1, <2>2, <2>3 DEF TypeOK, ApiTypeOK, SchedTypeOK
<1>27. ASSUME NEW w \in Workers,
       Retry(w), UNCHANGED <<api, sched>>
       PROVE TypeOK'
  <2>1. WorkerTypeOK'
    BY <1>27 DEF TypeOK, WorkerTypeOK, Retry, Goto
  <2>2. StoreTypeOK'
    BY <1>27, MessageType DEF TypeOK, StoreTypeOK, CampaignRow, RunRow, tables, history, Retry
  <2>3. BrokerTypeOK'
    BY <1>27, MessageType DEF TypeOK, BrokerTypeOK, broker, Retry, Publish, Put, MessagesHoldRuns, Busy, At
  <2>4. QED
    BY <1>27, <2>1, <2>2, <2>3 DEF TypeOK, ApiTypeOK, SchedTypeOK
<1>28. ASSUME NEW w \in Workers,
       RetriesExhausted(w), UNCHANGED <<api, sched>>
       PROVE TypeOK'
  <2>1. WorkerTypeOK'
    BY <1>28 DEF TypeOK, WorkerTypeOK, RetriesExhausted, Goto
  <2>2. StoreTypeOK'
    BY <1>28, MessageType DEF TypeOK, StoreTypeOK, CampaignRow, RunRow, tables, history, RetriesExhausted, RunOf, MessagesHoldRuns, Busy, At
  <2>3. BrokerTypeOK'
    BY <1>28, MessageType DEF TypeOK, BrokerTypeOK, broker, RetriesExhausted
  <2>4. QED
    BY <1>28, <2>1, <2>2, <2>3 DEF TypeOK, ApiTypeOK, SchedTypeOK
<1>29. ASSUME NEW w \in Workers,
       RetryPublishFails(w), UNCHANGED <<api, sched>>
       PROVE TypeOK'
  <2>1. WorkerTypeOK'
    BY <1>29 DEF TypeOK, WorkerTypeOK, RetryPublishFails, Goto
  <2>2. StoreTypeOK'
    BY <1>29, MessageType DEF TypeOK, StoreTypeOK, CampaignRow, RunRow, tables, history, RetryPublishFails, Fault, RunOf, MessagesHoldRuns, Busy, At
  <2>3. BrokerTypeOK'
    BY <1>29, MessageType DEF TypeOK, BrokerTypeOK, broker, RetryPublishFails
  <2>4. QED
    BY <1>29, <2>1, <2>2, <2>3 DEF TypeOK, ApiTypeOK, SchedTypeOK
<1>30. ASSUME NEW w \in Workers,
       Ack(w), UNCHANGED <<api, sched>>
       PROVE TypeOK'
  <2>1. WorkerTypeOK'
    BY <1>30 DEF TypeOK, WorkerTypeOK, Ack, IdleWorker
  <2>2. StoreTypeOK'
    BY <1>30 DEF TypeOK, StoreTypeOK, CampaignRow, RunRow, tables, history, Ack
  <2>3. BrokerTypeOK'
    BY <1>30 DEF TypeOK, BrokerTypeOK, broker, Ack
  <2>4. QED
    BY <1>30, <2>1, <2>2, <2>3 DEF TypeOK, ApiTypeOK, SchedTypeOK
<1>31. ASSUME NEW w \in Workers,
       ChildLost(w), UNCHANGED <<api, sched>>
       PROVE TypeOK'
  <2>1. WorkerTypeOK'
    BY <1>31 DEF TypeOK, WorkerTypeOK, ChildLost, IdleWorker
  <2>2. StoreTypeOK'
    BY <1>31, MessageType DEF TypeOK, StoreTypeOK, CampaignRow, RunRow, tables, history, ChildLost, Fault, RunOf, MessagesHoldRuns, Busy
  <2>3. BrokerTypeOK'
    BY <1>31, MessageType DEF TypeOK, BrokerTypeOK, broker, ChildLost
  <2>4. QED
    BY <1>31, <2>1, <2>2, <2>3 DEF TypeOK, ApiTypeOK, SchedTypeOK
<1>32. ASSUME NEW w \in Workers,
       WorkerCrash(w), UNCHANGED <<api, sched>>
       PROVE TypeOK'
  <2>1. WorkerTypeOK'
    BY <1>32 DEF TypeOK, WorkerTypeOK, WorkerCrash, IdleWorker
  <2>2. StoreTypeOK'
    BY <1>32, MessageType DEF TypeOK, StoreTypeOK, CampaignRow, RunRow, tables, history, WorkerCrash, Fault, RunOf, MessagesHoldRuns, Busy
  <2>3. BrokerTypeOK'
    BY <1>32, MessageType DEF TypeOK, BrokerTypeOK, broker, WorkerCrash, Put, MessagesHoldRuns, Busy
  <2>4. QED
    BY <1>32, <2>1, <2>2, <2>3 DEF TypeOK, ApiTypeOK, SchedTypeOK
<1>33. ASSUME NEW w \in Workers,
       ConnectionLost(w), UNCHANGED <<api, sched>>
       PROVE TypeOK'
  <2>1. WorkerTypeOK'
    BY <1>33 DEF TypeOK, WorkerTypeOK, ConnectionLost
  <2>2. StoreTypeOK'
    BY <1>33, MessageType DEF TypeOK, StoreTypeOK, CampaignRow, RunRow, tables, history, ConnectionLost, Fault, RunOf, MessagesHoldRuns, Busy
  <2>3. BrokerTypeOK'
    BY <1>33, MessageType DEF TypeOK, BrokerTypeOK, broker, ConnectionLost, Put, MessagesHoldRuns, Busy
  <2>4. QED
    BY <1>33, <2>1, <2>2, <2>3 DEF TypeOK, ApiTypeOK, SchedTypeOK
<1>34. ASSUME NEW m \in Message, Redeliver(m), UNCHANGED <<api, sched, worker>>
       PROVE TypeOK'
  <2>1. StoreTypeOK' /\ BrokerTypeOK'
    BY <1>34 DEF TypeOK, StoreTypeOK, BrokerTypeOK, Redeliver, Remove, Put, tables, history
  <2>2. QED
    BY <1>34, <2>1 DEF TypeOK, ApiTypeOK, SchedTypeOK, WorkerTypeOK
<1>35. CASE UNCHANGED vars
  BY <1>35 DEF vars, tables, history, broker, TypeOK, StoreTypeOK, BrokerTypeOK, ApiTypeOK, SchedTypeOK, WorkerTypeOK
<1>36. ASSUME NEW w \in Workers,
       LateTimeLimit(w), UNCHANGED <<api, sched>>
       PROVE TypeOK'
  <2>1. WorkerTypeOK'
    BY <1>36 DEF TypeOK, WorkerTypeOK, LateTimeLimit, HandleUnread
  <2>2. StoreTypeOK'
    BY <1>36, MarkCompletedType DEF TypeOK, StoreTypeOK, LateTimeLimit, Fault
  <2>3. BrokerTypeOK'
    BY <1>36 DEF TypeOK, BrokerTypeOK, broker, LateTimeLimit
  <2>4. QED
    BY <1>36, <2>1, <2>2, <2>3 DEF TypeOK, ApiTypeOK, SchedTypeOK
<1>37. QED
  BY <1>1, <1>2, <1>3, <1>4, <1>5, <1>6, <1>7, <1>8, <1>9, <1>10, <1>11, <1>12, <1>13, <1>14, <1>15, <1>16, <1>17, <1>18, <1>19, <1>20, <1>21, <1>22, <1>23, <1>24, <1>25, <1>26, <1>27, <1>28, <1>29, <1>30, <1>31, <1>32, <1>33, <1>34, <1>35, <1>36
  DEF Next, ApiNext, SchedNext, WorkerNext, WorkerStep, WorkerFault, BrokerNext

-----------------------------------------------------------------------------
(* Refinement: every step is a step of RunLedger or leaves its tables alone. *)

\* Every step of the system is a step of RunLedger on the two tables, or
\* leaves them alone: one case per action that writes a table.
LEMMA LedgerStep ==
  ASSUME IndInv, [Next]_vars
  PROVE  [Ledger!Next]_(Ledger!ledger)
<1> DEFINE LedgerMoves == [Ledger!Next]_(Ledger!ledger)
<1>0. /\ TypeOK /\ RunsHaveCampaigns /\ RequestsHoldRows /\ ClaimsHold /\ MessagesHoldRuns
  BY DEF IndInv
<1>1. ASSUME UNCHANGED tables PROVE LedgerMoves
  BY <1>1 DEF tables, Ledger!ledger
<1>2. ASSUME NEW c \in Campaigns, NEW s \in Schedule, CreateCampaign(c, s) PROVE LedgerMoves
  <2>1. Ledger!Create(c, s)
    BY <1>2 DEF CreateCampaign, Ledger!Create, Ledger!Exists
  <2>2. QED
    BY <2>1 DEF Ledger!Next, Schedule
<1>3. ASSUME NEW q \in Requests, ApiCancel(q) PROVE LedgerMoves
  <2>1. api[q].campaign \in Campaigns /\ Ledger!Cancel(api[q].campaign)
    BY <1>0, <1>3 DEF ApiCancel, RequestsHoldRows, Ledger!Cancel, Ledger!Exists
  <2>2. QED
    BY <2>1 DEF Ledger!Next
<1>4. ASSUME NEW q \in Requests, NEW r \in ApiRuns, ApiExecute(q, r) PROVE LedgerMoves
  <2> DEFINE c == api[q].campaign
  <2>1. /\ c \in Campaigns
        /\ campaign[c].status # "none"
        /\ api[q].seen = "queued" => Left(c)
    BY <1>0, <1>4 DEF ApiExecute, Executing, RequestsHoldRows
  <2>2. ~Ledger!Opened(r) /\ run' = [run EXCEPT ![r] = Ledger!Opening(c)]
    BY <1>4 DEF ApiExecute, Fresh, NewRun, Ledger!Opened, Ledger!Opening
  <2>3. CASE api[q].seen = "queued"
    <3>1. campaign' = [campaign EXCEPT ![c].status = @]
      BY <1>4, <2>3 DEF ApiExecute, QueuedFrom
    <3>2. campaign' = campaign
      BY <1>0, <3>1 DEF TypeOK, StoreTypeOK, CampaignRow
    <3>3. Ledger!Execute(c, r)
      BY <2>1, <2>2, <2>3, <3>2 DEF Ledger!Execute, Ledger!Exists, Left
    <3>4. QED
      BY <2>1, <3>3 DEF Ledger!Next, Runs
  <2>4. CASE api[q].seen # "queued"
    <3>1. campaign' = [campaign EXCEPT ![c].status = "queued"]
      BY <1>4, <2>4 DEF ApiExecute, QueuedFrom
    <3>2. Ledger!Execute(c, r)
      BY <2>1, <2>2, <3>1 DEF Ledger!Execute, Ledger!Exists
    <3>3. QED
      BY <2>1, <3>2 DEF Ledger!Next, Runs
  <2>5. QED
    BY <2>3, <2>4
<1>5. ASSUME NEW c \in Campaigns, ClockTick(c) PROVE LedgerMoves
  <2>1. Ledger!BecomeDue(c)
    BY <1>5 DEF ClockTick, Ledger!BecomeDue
  <2>2. QED
    BY <2>1 DEF Ledger!Next
<1>6. ASSUME NEW s \in Schedulers, NEW open \in Openings(sched[s].batch), SchedCommit(s, open)
      PROVE LedgerMoves
  <2> DEFINE batch == sched[s].batch
             opened == {open[c] : c \in batch}
             owner == [r \in opened |-> CHOOSE c \in batch : open[c] = r]
  <2>1. batch \subseteq Campaigns /\ \A c \in batch : Ledger!Due(c)
    BY <1>0 DEF TypeOK, SchedTypeOK, ClaimsHold, Due, Ledger!Due
  <2>2. /\ \A c \in batch : open[c] \in Runs /\ ~Ledger!Opened(open[c])
        /\ \A c, d \in batch : open[c] = open[d] => c = d
    BY DEF Openings, Fresh, Ledger!Opened, Runs
  <2>3. \A c \in batch : owner[open[c]] = c
    BY <2>2
  <2>4. opened \in SUBSET Runs /\ owner \in [opened -> Campaigns]
    BY <2>1, <2>2, <2>3
  <2>5. Ledger!Claim(opened, owner)
    <3>1. \A r \in opened : ~Ledger!Opened(r) /\ Ledger!Due(owner[r])
      BY <2>1, <2>2, <2>3
    <3>2. \A r1, r2 \in opened : owner[r1] = owner[r2] => r1 = r2
      BY <2>3
    <3>3. run' = [r \in Runs |-> IF r \in opened THEN Ledger!Opening(owner[r]) ELSE run[r]]
      BY <1>6 DEF SchedCommit, NewRun, Ledger!Opening
    <3>4. campaign' = [c \in Campaigns |-> IF \E r \in opened : owner[r] = c
                                             THEN [campaign[c] EXCEPT !.status = "queued"]
                                             ELSE campaign[c]]
      <4>1. \A c \in Campaigns : c \in batch <=> \E r \in opened : owner[r] = c
        <5>1. \A r \in opened : owner[r] \in batch
          BY <2>3
        <5>2. \A c \in batch : open[c] \in opened /\ owner[open[c]] = c
          BY <2>3
        <5>3. QED
          <6> HIDE DEF opened, owner
          <6> QED
            BY <5>1, <5>2
      <4>2. campaign' = [c \in Campaigns |->
              IF c \in batch THEN [campaign[c] EXCEPT !.status = "queued"] ELSE campaign[c]]
        BY <1>6 DEF SchedCommit
      <4>3. QED
        <5> HIDE DEF opened, owner, batch
        <5> QED
          BY <4>1, <4>2
    <3>5. QED
      BY <3>1, <3>2, <3>3, <3>4 DEF Ledger!Claim
  <2>6. QED
    BY <2>4, <2>5 DEF Ledger!Next
<1>7. ASSUME NEW w \in Workers, Busy(w), MarkBoth(RunOf(w), "running") PROVE LedgerMoves
  <2>1. RunOf(w) \in Runs /\ Ledger!Start(RunOf(w))
    BY <1>0, <1>7, MessageType DEF MessagesHoldRuns, MarkBoth, Opened, RunOf, Ledger!Start, Ledger!Opened
  <2>2. QED
    BY <2>1 DEF Ledger!Next
<1>8. ASSUME NEW w \in Workers, At(w, "fetch"), MarkCompleted(RunOf(w)) PROVE LedgerMoves
  <2>1. RunOf(w) \in Runs /\ Ledger!Complete(RunOf(w))
    BY <1>0, <1>8, MessageType
    DEF MessagesHoldRuns, MarkCompleted, WithFinding, Started, RunOf, Busy, At,
        Ledger!Complete, Ledger!Started, Ledger!WithFinding
  <2>2. QED
    BY <2>1 DEF Ledger!Next
<1>9. ASSUME NEW w \in Workers, At(w, "recording"), WriteFailed(w) PROVE LedgerMoves
  <2>1. RunOf(w) \in Runs /\ Ledger!Fail(RunOf(w))
    BY <1>0, <1>9, MessageType
    DEF MessagesHoldRuns, WriteFailed, Started, RunOf, Busy, At, Ledger!Fail, Ledger!Started
  <2>2. QED
    BY <2>1 DEF Ledger!Next
<1>10. ASSUME ApiNext PROVE LedgerMoves
  BY <1>1, <1>2, <1>3, <1>4, <1>10
  DEF ApiNext, ApiLoad, ApiReject, ApiPublish, ApiFails
<1>11. ASSUME SchedNext PROVE LedgerMoves
  BY <1>1, <1>5, <1>6, <1>11
  DEF SchedNext, SchedBoot, SchedSelect, SchedClaimFails, SchedDispatch, SchedDispatchFails, SchedCrash
<1>12. ASSUME NEW w \in Workers, WorkerStep(w) PROVE LedgerMoves
  BY <1>1, <1>7, <1>8, <1>9, <1>12
  DEF WorkerStep, StartRun, Complete, FetchFails, LoadFailed, RecordFailure, RefreshRun, Retry,
      RetriesExhausted, Ack, At, Busy
<1>13. ASSUME NEW w \in Workers, WorkerFault(w) PROVE LedgerMoves
  BY <1>1, <1>7, <1>8, <1>9, <1>13
  DEF WorkerFault, StartFails, CompleteFails, LateTimeLimit, RecordFailureFails, RefreshFails, RetryPublishFails,
      ChildLost, WorkerCrash, ConnectionLost, At, Busy
<1>14. ASSUME WorkerNext PROVE LedgerMoves
  BY <1>1, <1>12, <1>13, <1>14 DEF WorkerNext, WorkerTake
<1>15. ASSUME BrokerNext PROVE LedgerMoves
  BY <1>1, <1>15 DEF BrokerNext, Redeliver
<1>16. CASE UNCHANGED vars
  BY <1>1, <1>16 DEF vars, tables
<1>17. QED
  BY <1>10, <1>11, <1>14, <1>15, <1>16 DEF Next

\* What no step takes back.
RowsKept ==
  /\ \A r \in Runs : /\ Opened(r) => Opened(r)' /\ run'[r].campaign = run[r].campaign
                     /\ Started(r) => Started(r)'
  /\ \A c \in Campaigns : /\ campaign[c].status # "none" => campaign'[c].status # "none"
                          /\ Left(c) => Left(c)'

\* What every step of RunLedger leaves true of the rows: no row disappears,
\* no campaign becomes a draft again, no started run becomes queued again.
LEMMA LedgerKeepsRows ==
  ASSUME TypeOK, [Ledger!Next]_(Ledger!ledger)
  PROVE  RowsKept
<1> USE DEF RowsKept, Opened, Started, Left
<1>1. /\ campaign \in [Campaigns -> CampaignRow]
      /\ run \in [Runs -> RunRow]
  BY DEF TypeOK, StoreTypeOK
<1>2. CASE UNCHANGED Ledger!ledger
  BY <1>2 DEF Ledger!ledger
<1>3. ASSUME NEW c \in Campaigns, NEW s \in Schedule, Ledger!Create(c, s)
      PROVE  /\ UNCHANGED run
             /\ \A d \in Campaigns : d # c => campaign'[d] = campaign[d]
             /\ campaign[c].status = "none" /\ campaign'[c].status # "none"
  BY <1>1, <1>3 DEF Ledger!Create, Ledger!Exists
<1>4. ASSUME NEW c \in Campaigns, Ledger!BecomeDue(c)
      PROVE  UNCHANGED run /\ \A d \in Campaigns : campaign'[d].status = campaign[d].status
  BY <1>1, <1>4 DEF Ledger!BecomeDue, CampaignRow
<1>5. ASSUME NEW c \in Campaigns, Ledger!Cancel(c)
      PROVE  UNCHANGED run /\ \A d \in Campaigns : campaign'[d].status \in {campaign[d].status, "cancelled"}
  BY <1>1, <1>5 DEF Ledger!Cancel, CampaignRow
<1>6. ASSUME NEW c \in Campaigns, NEW r \in Runs, Ledger!Execute(c, r)
      PROVE  /\ \A x \in Runs : x # r => run'[x] = run[x]
             /\ ~Opened(r)
             /\ \A d \in Campaigns : campaign'[d].status \in {campaign[d].status, "queued"}
  BY <1>1, <1>6 DEF Ledger!Execute, Ledger!Opened, CampaignRow
<1>7. ASSUME NEW opened \in SUBSET Runs, NEW owner \in [opened -> Campaigns], Ledger!Claim(opened, owner)
      PROVE  /\ \A x \in Runs : x \notin opened => run'[x] = run[x]
             /\ \A x \in opened : ~Opened(x)
             /\ \A d \in Campaigns : campaign'[d].status \in {campaign[d].status, "queued"}
  BY <1>1, <1>7 DEF Ledger!Claim, Ledger!Opened, CampaignRow
<1>8. ASSUME NEW r \in Runs, Ledger!Start(r) \/ Ledger!Complete(r) \/ Ledger!Fail(r)
      PROVE  /\ \A x \in Runs : /\ run'[x].campaign = run[x].campaign
                                /\ run'[x].status \in {run[x].status, "running", "completed", "failed"}
             /\ \A d \in Campaigns :
                  campaign'[d].status \in {campaign[d].status, "running", "completed", "failed"}
  <2>1. CASE Ledger!Start(r)
    BY <1>1, <2>1 DEF Ledger!Start, CampaignRow, RunRow
  <2>2. CASE Ledger!Complete(r)
    BY <1>1, <2>2 DEF Ledger!Complete, Ledger!WithFinding, CampaignRow, RunRow
  <2>3. CASE Ledger!Fail(r)
    <3>1. run' = run \/ run' = [run EXCEPT ![r].status = "failed"]
      BY <2>3 DEF Ledger!Fail
    <3>2. campaign' = campaign \/ campaign' = [campaign EXCEPT ![run[r].campaign].status = "failed"]
      BY <2>3 DEF Ledger!Fail
    <3>3. \A x \in Runs : /\ run'[x].campaign = run[x].campaign
                         /\ run'[x].status \in {run[x].status, "running", "completed", "failed"}
      BY <1>1, <3>1 DEF RunRow
    <3>4. QED
      BY <1>1, <3>2, <3>3 DEF CampaignRow
  <2>4. QED
    BY <1>8, <2>1, <2>2, <2>3
<1>9. QED
  BY <1>2, <1>3, <1>4, <1>5, <1>6, <1>7, <1>8 DEF Ledger!Next, Schedule

\* RunLedger never opens a run without a campaign, nor moves it to another.
LEMMA NextRunsHaveCampaigns ==
  ASSUME TypeOK, RunsHaveCampaigns, [Ledger!Next]_(Ledger!ledger)
  PROVE  RunsHaveCampaigns'
<1> SUFFICES ASSUME NEW r \in Runs, Opened(r)'
             PROVE  run'[r].campaign \in Campaigns /\ Left(run[r].campaign)'
  BY DEF RunsHaveCampaigns
<1>1. CASE Opened(r)
  BY <1>1, LedgerKeepsRows DEF RowsKept, RunsHaveCampaigns
<1>2. CASE ~Opened(r)
  <2>0. campaign \in [Campaigns -> CampaignRow] /\ run \in [Runs -> RunRow]
    BY DEF TypeOK, StoreTypeOK
  <2>1. ASSUME NEW c \in Campaigns, NEW x \in Runs, Ledger!Execute(c, x)
        PROVE  run'[r].campaign = c /\ Left(c)'
    <3>1. x = r
      BY <1>2, <2>0, <2>1 DEF Ledger!Execute, Opened
    <3>2. run'[r].campaign = c
      BY <2>0, <2>1, <3>1 DEF Ledger!Execute, Ledger!Opening
    <3>3. Left(c)'
      BY <2>0, <2>1 DEF Ledger!Execute, Ledger!Exists, Left, CampaignRow
    <3>4. QED
      BY <3>2, <3>3
  <2>2. ASSUME NEW opened \in SUBSET Runs, NEW owner \in [opened -> Campaigns], Ledger!Claim(opened, owner)
        PROVE  run'[r].campaign \in Campaigns /\ Left(run[r].campaign)'
    <3>1. r \in opened
      BY <1>2, <2>0, <2>2 DEF Ledger!Claim, Opened
    <3>2. run'[r].campaign = owner[r]
      BY <2>2, <3>1 DEF Ledger!Claim, Ledger!Opening
    <3>3. Left(owner[r])'
      BY <2>0, <2>2, <3>1 DEF Ledger!Claim, Left, CampaignRow
    <3>4. QED
      BY <3>1, <3>2, <3>3
  <2>3. ASSUME NEW x \in Runs, Ledger!Start(x) \/ Ledger!Complete(x) \/ Ledger!Fail(x)
        PROVE  FALSE
    BY <1>2, <2>0, <2>3
    DEF Ledger!Start, Ledger!Complete, Ledger!Fail, Ledger!Opened, Ledger!Started, Opened
  <2>4. CASE UNCHANGED run
    BY <1>2, <2>4 DEF Opened
  <2>5. QED
    BY <2>1, <2>2, <2>3, <2>4
    DEF Ledger!Next, Ledger!ledger, Ledger!Create, Ledger!BecomeDue, Ledger!Cancel
<1>3. QED
  BY <1>1, <1>2

\* So does every step of the system.
LEMMA NextKeepsRows ==
  ASSUME IndInv, [Next]_vars
  PROVE  RowsKept /\ RunsHaveCampaigns'
BY LedgerStep, LedgerKeepsRows, NextRunsHaveCampaigns DEF IndInv

-----------------------------------------------------------------------------
(* The remaining parts of the inductive invariant.                          *)

\* What a request remembers of its campaign and its run stays true.
LEMMA NextRequestsHoldRows ==
  ASSUME IndInv, [Next]_vars
  PROVE  RequestsHoldRows'
<1> DEFINE Loaded(x) ==
             x.pc = "loaded" =>
               /\ x.op \in {"cancel", "execute"}
               /\ x.campaign \in Campaigns
               /\ campaign'[x.campaign].status # "none"
               /\ x.seen = "queued" => campaign'[x.campaign].status \notin {"none", "draft"}
           Publishing(x) ==
             x.pc = "publish" => x.run \in ApiRuns /\ run'[x.run].status # "none"
<1> SUFFICES ASSUME NEW p \in Requests
             PROVE  Loaded(api'[p]) /\ Publishing(api'[p])
  BY DEF RequestsHoldRows, Left, Opened
<1>1. RowsKept /\ RequestsHoldRows /\ TypeOK
  BY NextKeepsRows DEF IndInv
<1>2. CASE api'[p] = api[p]
  BY <1>1, <1>2 DEF RequestsHoldRows, RowsKept, Opened, Left, Runs
<1>3. CASE api'[p] = IdleRequest
  BY <1>3 DEF IdleRequest
<1>4. ASSUME NEW q \in Requests, NEW c \in Campaigns, NEW op \in {"cancel", "execute"}, ApiLoad(q, c, op),
             api'[p] # api[p]
      PROVE  /\ campaign[c].status # "none" /\ campaign' = campaign
             /\ api'[p] = [pc |-> "loaded", op |-> op, campaign |-> c, seen |-> campaign[c].status, run |-> NoRun]
  BY <1>1, <1>4 DEF ApiLoad, tables, TypeOK, ApiTypeOK
<1>5. ASSUME NEW q \in Requests, NEW r \in ApiRuns, ApiExecute(q, r), api'[p] # api[p]
      PROVE  api'[p].pc = "publish" /\ api'[p].run = r /\ run'[r].status # "none"
  BY <1>1, <1>5 DEF ApiExecute, TypeOK, ApiTypeOK, StoreTypeOK, NewRun, Runs
<1>6. ASSUME NEW q \in Requests, ApiReject(q) \/ ApiCancel(q) \/ ApiPublish(q) \/ ApiFails(q)
      PROVE  api'[p] = api[p] \/ api'[p] = IdleRequest
  BY <1>1, <1>6 DEF ApiReject, ApiCancel, ApiPublish, ApiFails, TypeOK, ApiTypeOK
<1>7. CASE ApiNext
  <2>1. ASSUME NEW c \in Campaigns, NEW s \in Schedule, CreateCampaign(c, s) PROVE api' = api
    BY <2>1 DEF CreateCampaign
  <2>2. ASSUME NEW q \in Requests, NEW c \in Campaigns, NEW op \in {"cancel", "execute"}, ApiLoad(q, c, op)
        PROVE  Loaded(api'[p]) /\ Publishing(api'[p])
    <3>1. CASE api'[p] # api[p]
      <4>1. /\ campaign[c].status # "none" /\ campaign' = campaign
            /\ api'[p] = [pc |-> "loaded", op |-> op, campaign |-> c, seen |-> campaign[c].status, run |-> NoRun]
        BY <1>4, <2>2, <3>1
      <4>2. QED
        BY <4>1
    <3>2. QED
      BY <1>2, <3>1
  <2>3. ASSUME NEW q \in Requests, NEW r \in ApiRuns, ApiExecute(q, r) PROVE Loaded(api'[p]) /\ Publishing(api'[p])
    <3>1. CASE api'[p] # api[p]
      BY <1>5, <2>3, <3>1
    <3>2. QED
      BY <1>2, <3>1
  <2>4. QED
    <3> HIDE DEF Loaded, Publishing
    <3> QED
      BY <1>2, <1>3, <1>6, <1>7, <2>1, <2>2, <2>3 DEF ApiNext
<1>8. CASE UNCHANGED api
  BY <1>2, <1>8
<1>9. QED
  BY <1>7, <1>8 DEF Next, vars

-----------------------------------------------------------------------------
\* Nobody but the scheduler that holds it touches a locked draft.
LEMMA LockedDraftStays ==
  ASSUME IndInv, [Next]_vars, NEW c \in Campaigns, Due(c), ~Unlocked(c)
  PROVE  \/ Due(c)'
         \/ \E s \in Schedulers : \E open \in Openings(sched[s].batch) : c \in sched[s].batch /\ SchedCommit(s, open)
<1>1. /\ campaign \in [Campaigns -> CampaignRow] /\ RunsHaveCampaigns /\ MessagesHoldRuns
  BY DEF IndInv, TypeOK, StoreTypeOK
<1>2. ASSUME UNCHANGED tables PROVE Due(c)'
  BY <1>2 DEF Due, tables
<1>3. ASSUME NEW d \in Campaigns, d # c, \A e \in Campaigns : e # d => campaign'[e] = campaign[e]
      PROVE  Due(c)'
  BY <1>3 DEF Due
<1>4. ASSUME NEW w \in Workers, Busy(w)
      PROVE  run[RunOf(w)].campaign \in Campaigns /\ run[RunOf(w)].campaign # c
  BY <1>1, <1>4, MessageType DEF MessagesHoldRuns, RunsHaveCampaigns, RunOf, Left, Due
<1>5. CASE ApiNext
  <2>1. ASSUME NEW d \in Campaigns, NEW s \in Schedule, CreateCampaign(d, s) PROVE Due(c)'
    BY <1>1, <1>3, <2>1 DEF CreateCampaign, Due
  <2>2. ASSUME NEW q \in Requests, ApiCancel(q) PROVE Due(c)'
    BY <1>1, <2>2 DEF ApiCancel, Due
  <2>3. ASSUME NEW q \in Requests, NEW r \in ApiRuns, ApiExecute(q, r) PROVE Due(c)'
    BY <1>1, <2>3 DEF ApiExecute, Due
  <2>4. QED
    BY <1>2, <1>5, <2>1, <2>2, <2>3
    DEF ApiNext, ApiLoad, ApiReject, ApiPublish, ApiFails
<1>6. CASE SchedNext
  <2>1. ASSUME NEW d \in Campaigns, ClockTick(d) PROVE Due(c)'
    BY <1>1, <1>3, <2>1 DEF ClockTick, Due
  <2>2. ASSUME NEW s \in Schedulers, NEW open \in Openings(sched[s].batch), SchedCommit(s, open),
               c \notin sched[s].batch
        PROVE  Due(c)'
    BY <1>1, <2>2 DEF SchedCommit, Due
  <2>3. QED
    BY <1>2, <1>6, <2>1, <2>2
    DEF SchedNext, SchedBoot, SchedSelect, SchedClaimFails, SchedDispatch, SchedDispatchFails, SchedCrash
<1>7. ASSUME NEW w \in Workers, Busy(w) PROVE MarkBoth(RunOf(w), "running") => Due(c)'
  BY <1>1, <1>4, <1>7 DEF MarkBoth, Due
<1>10. ASSUME NEW w \in Workers, Busy(w) PROVE MarkCompleted(RunOf(w)) => Due(c)'
  BY <1>1, <1>4, <1>10 DEF MarkCompleted, Due
<1>11. ASSUME NEW w \in Workers, Busy(w) PROVE WriteFailed(w) => Due(c)'
  BY <1>1, <1>4, <1>11 DEF WriteFailed, Due
<1>8. CASE WorkerNext
  <2>1. ASSUME NEW w \in Workers, WorkerStep(w) PROVE Due(c)'
    BY <1>2, <1>7, <1>10, <1>11, <2>1
    DEF WorkerStep, StartRun, Complete, FetchFails, LoadFailed, RecordFailure, RefreshRun, Retry,
        RetriesExhausted, Ack, At, Busy
  <2>2. ASSUME NEW w \in Workers, WorkerFault(w) PROVE Due(c)'
    BY <1>2, <1>7, <1>10, <1>11, <2>2
    DEF WorkerFault, StartFails, CompleteFails, LateTimeLimit, RecordFailureFails, RefreshFails, RetryPublishFails,
        ChildLost, WorkerCrash, ConnectionLost, At, Busy
  <2>3. QED
    BY <1>2, <1>8, <2>1, <2>2 DEF WorkerNext, WorkerTake
<1>9. QED
  BY <1>2, <1>5, <1>6, <1>8 DEF Next, BrokerNext, Redeliver, vars

\* A claimed batch stays due: only the commit of the claim itself changes it.
LEMMA NextClaimsHold ==
  ASSUME IndInv, [Next]_vars
  PROVE  ClaimsHold'
<1>1. /\ RowsKept /\ ClaimsHold /\ TypeOK
      /\ sched \in [Schedulers -> [pc : {"down", "idle", "claiming", "dispatching"},
                                   batch : SUBSET Campaigns, pending : SUBSET SchedRuns]]
  BY NextKeepsRows DEF IndInv, TypeOK, SchedTypeOK
<1>2. \A s \in Schedulers : \A r \in sched[s].pending : Opened(r)'
  BY <1>1 DEF ClaimsHold, RowsKept, Runs
<1>3. ASSUME UNCHANGED <<sched, rowLocks>> PROVE ClaimsHold'
  <2>1. \A s \in Schedulers : \A open \in Openings(sched[s].batch) : ~SchedCommit(s, open)
    BY <1>1, <1>3 DEF SchedCommit, Scheduled
  <2>2. \A s \in Schedulers : \A c \in sched[s].batch : Due(c)'
    BY <1>1, <2>1, LockedDraftStays DEF ClaimsHold
  <2>3. QED
    BY <1>1, <1>2, <1>3, <2>2 DEF ClaimsHold, Unlocked
<1>4. ASSUME NEW s \in Schedulers, NEW pending \in SUBSET sched[s].pending,
             NEW pc \in {"down", "idle", "claiming", "dispatching"},
             pc # "dispatching" => pending = {},
             UNCHANGED campaign, rowLocks' = rowLocks \ sched[s].batch,
             sched' = [sched EXCEPT ![s] = Scheduled(pc, {}, pending)]
      PROVE  ClaimsHold'
  <2>1. sched'[s].batch = {} /\ sched'[s].pending = pending /\ sched'[s].pc = pc
    BY <1>1, <1>4 DEF Scheduled
  <2>2. \A t \in Schedulers : t # s => sched'[t] = sched[t]
    BY <1>4
  <2>3. \A t \in Schedulers : t # s => \A c \in sched[t].batch : Due(c)' /\ c \in rowLocks'
    BY <1>1, <1>4 DEF ClaimsHold, Due, Unlocked
  <2>4. /\ (sched[s].pc # "claiming" => sched[s].batch = {})'
        /\ (sched[s].pc # "dispatching" => sched[s].pending = {})'
        /\ \A c \in sched'[s].batch : Due(c)' /\ c \in rowLocks'
        /\ \A r \in sched'[s].pending : Opened(r)'
    BY <1>2, <1>4, <2>1
  <2>5. \A t \in Schedulers : t # s =>
          /\ (sched[t].pc # "claiming" => sched[t].batch = {})'
          /\ (sched[t].pc # "dispatching" => sched[t].pending = {})'
          /\ \A r \in sched'[t].pending : Opened(r)'
    BY <1>1, <1>2, <2>2 DEF ClaimsHold
  <2>6. \A s1, s2 \in Schedulers : s1 # s2 => sched'[s1].batch \cap sched'[s2].batch = {}
    BY <1>1, <2>1, <2>2 DEF ClaimsHold
  <2>7. QED
    BY <2>2, <2>3, <2>4, <2>5, <2>6 DEF ClaimsHold, Unlocked
<1>5. ASSUME NEW s \in Schedulers, SchedBoot(s) PROVE ClaimsHold'
  <2>1. sched[s].batch = {} /\ UNCHANGED <<campaign, rowLocks>>
    BY <1>1, <1>5 DEF SchedBoot, ClaimsHold, tables
  <2>2. QED
    BY <1>4, <1>5, <2>1 DEF SchedBoot
<1>6. ASSUME NEW s \in Schedulers, SchedClaimFails(s) PROVE ClaimsHold'
  BY <1>4, <1>6 DEF SchedClaimFails, tables
<1>7. ASSUME NEW s \in Schedulers, SchedCrash(s) PROVE ClaimsHold'
  BY <1>4, <1>7 DEF SchedCrash, tables
<1>8. ASSUME NEW s \in Schedulers, SchedDispatchFails(s) PROVE ClaimsHold'
  <2>1. sched[s].batch = {}
    BY <1>1, <1>8 DEF SchedDispatchFails, ClaimsHold
  <2>2. QED
    BY <1>4, <1>8, <2>1 DEF SchedDispatchFails, tables
<1>9. ASSUME NEW s \in Schedulers, NEW r \in SchedRuns, SchedDispatch(s, r) PROVE ClaimsHold'
  <2>1. sched[s].batch = {}
    BY <1>1, <1>9 DEF SchedDispatch, ClaimsHold
  <2>2. QED
    BY <1>4, <1>9, <2>1 DEF SchedDispatch, tables
<1>10. ASSUME NEW s \in Schedulers, NEW b \in SUBSET Campaigns, SchedSelect(s, b) PROVE ClaimsHold'
  <2>1. sched'[s] = Scheduled("claiming", b, {}) /\ \A t \in Schedulers : t # s => sched'[t] = sched[t]
    BY <1>1, <1>10 DEF SchedSelect
  <2>2. rowLocks' = rowLocks \cup b /\ UNCHANGED campaign
    BY <1>10 DEF SchedSelect, tables
  <2>3. \A c \in b : Due(c) /\ c \notin rowLocks
    BY <1>10 DEF SchedSelect, Claimable, Unlocked
  <2>4. \A t \in Schedulers : t # s => b \cap sched[t].batch = {}
    BY <1>1, <2>3 DEF ClaimsHold, Unlocked
  <2>5. QED
    BY <1>1, <1>2, <2>1, <2>2, <2>3, <2>4 DEF ClaimsHold, Unlocked, Due, Scheduled
<1>11. ASSUME NEW s \in Schedulers, NEW open \in Openings(sched[s].batch), SchedCommit(s, open)
       PROVE  ClaimsHold'
  <2> DEFINE opened == {open[c] : c \in sched[s].batch}
  <2>1. sched'[s] = Scheduled("dispatching", {}, opened) /\ \A t \in Schedulers : t # s => sched'[t] = sched[t]
    BY <1>1, <1>11 DEF SchedCommit
  <2>2. rowLocks' = rowLocks \ sched[s].batch
    BY <1>11 DEF SchedCommit
  <2>3. \A t \in Schedulers : t # s => \A c \in sched[t].batch : Due(c)' /\ c \in rowLocks'
    <3> SUFFICES ASSUME NEW t \in Schedulers, t # s, NEW c \in sched[t].batch
                 PROVE  Due(c)' /\ c \in rowLocks'
      OBVIOUS
    <3>1. c \in Campaigns /\ Due(c) /\ c \in rowLocks /\ c \notin sched[s].batch
      BY <1>1 DEF ClaimsHold, Unlocked
    <3>2. campaign'[c] = campaign[c]
      BY <1>11, <3>1 DEF SchedCommit
    <3>3. QED
      BY <2>2, <3>1, <3>2 DEF Due
  <2>4. \A r \in opened : Opened(r)'
    <3> SUFFICES ASSUME NEW c \in sched[s].batch PROVE Opened(open[c])'
      OBVIOUS
    <3>1. open[c] \in Runs
      BY DEF Openings, Fresh, Runs
    <3>2. QED
      BY <1>11, <3>1 DEF SchedCommit, NewRun, Opened
  <2>5. QED
    <3> HIDE DEF opened
    <3> QED
      BY <1>1, <1>2, <2>1, <2>3, <2>4 DEF ClaimsHold, Unlocked, Scheduled
<1>12. CASE SchedNext
  BY <1>3, <1>5, <1>6, <1>7, <1>8, <1>9, <1>10, <1>11, <1>12 DEF SchedNext, ClockTick
<1>13. CASE ApiNext /\ UNCHANGED <<sched, worker>>
  BY <1>3, <1>13 DEF ApiNext, CreateCampaign, ApiLoad, ApiReject, ApiCancel, ApiExecute, ApiPublish, ApiFails
<1>14. CASE WorkerNext /\ UNCHANGED <<api, sched>>
  BY <1>3, <1>14
  DEF WorkerNext, WorkerTake, WorkerStep, WorkerFault, StartRun, Complete, FetchFails, LoadFailed,
      RecordFailure, RefreshRun, Retry, RetriesExhausted, Ack, StartFails, CompleteFails, LateTimeLimit,
      RecordFailureFails, RefreshFails, RetryPublishFails, ChildLost, WorkerCrash, ConnectionLost
<1>15. QED
  BY <1>3, <1>12, <1>13, <1>14 DEF Next, BrokerNext, Redeliver, vars

\* A new run of a scheduler is for a campaign that had none from a scheduler,
\* since a campaign with a run is no draft.
LEMMA NextClaimedOnce ==
  ASSUME IndInv, [Next]_vars
  PROVE  ClaimedOnce'
<1>1. /\ ClaimedOnce /\ ClaimsHold /\ RunsHaveCampaigns /\ TypeOK
      /\ run \in [Runs -> RunRow]
  BY DEF IndInv, TypeOK, StoreTypeOK
<1>2. ClaimsHold'
  BY NextClaimsHold
<1> SUFFICES ASSUME NEW r1 \in SchedRuns, NEW r2 \in SchedRuns, r1 # r2,
                    run'[r1].status # "none", run'[r2].status # "none"
             PROVE  run'[r1].campaign # run'[r2].campaign
  BY <1>2 DEF ClaimedOnce, ClaimsHold
<1>3. r1 \in Runs /\ r2 \in Runs
  BY DEF Runs
<1>4. ASSUME \A r \in SchedRuns : /\ run'[r].campaign = run[r].campaign
                                  /\ run'[r].status = "none" <=> run[r].status = "none"
      PROVE  run'[r1].campaign # run'[r2].campaign
  BY <1>1, <1>4 DEF ClaimedOnce
<1>5. ASSUME NEW s \in Schedulers, NEW open \in Openings(sched[s].batch), SchedCommit(s, open)
      PROVE  run'[r1].campaign # run'[r2].campaign
  <2> DEFINE batch == sched[s].batch
  <2>1. ASSUME NEW r \in SchedRuns, run'[r].status # "none"
        PROVE  \/ \E c \in batch : open[c] = r /\ run'[r].campaign = c
               \/ run'[r] = run[r] /\ run[r].campaign \notin batch
    <3>0. r \in Runs
      BY DEF Runs
    <3>1. CASE \E c \in batch : open[c] = r
      <4>1. PICK c \in batch : open[c] = r /\ c = CHOOSE d \in batch : open[d] = r
        BY <3>1
      <4>2. run'[r].campaign = c
        BY <1>5, <3>0, <4>1 DEF SchedCommit, NewRun
      <4>3. QED
        BY <4>1, <4>2
    <3>2. CASE ~\E c \in batch : open[c] = r
      <4>1. run'[r] = run[r]
        BY <1>5, <3>0, <3>2 DEF SchedCommit
      <4>2. Left(run[r].campaign)
        BY <1>1, <2>1, <3>0, <4>1 DEF RunsHaveCampaigns, Opened
      <4>3. QED
        BY <1>1, <4>1, <4>2 DEF ClaimsHold, Due, Left
    <3>3. QED
      BY <3>1, <3>2
  <2>2. QED
    BY <1>1, <2>1 DEF ClaimedOnce
<1>6. ASSUME NEW w \in Workers, Busy(w)
      PROVE  RunOf(w) \in Runs /\ run[RunOf(w)].status # "none"
  BY <1>1, <1>6, MessageType DEF IndInv, MessagesHoldRuns, RunOf, Opened
<1>7. ASSUME NEW w \in Workers, Busy(w) PROVE MarkBoth(RunOf(w), "running") => run'[r1].campaign # run'[r2].campaign
  BY <1>1, <1>3, <1>4, <1>6, <1>7 DEF MarkBoth, RunRow, Runs
<1>8. ASSUME NEW w \in Workers, Busy(w) PROVE MarkCompleted(RunOf(w)) => run'[r1].campaign # run'[r2].campaign
  BY <1>1, <1>3, <1>4, <1>6, <1>8 DEF MarkCompleted, WithFinding, RunRow, Runs
<1>9. ASSUME NEW w \in Workers, Busy(w) PROVE WriteFailed(w) => run'[r1].campaign # run'[r2].campaign
  BY <1>1, <1>3, <1>4, <1>6, <1>9 DEF WriteFailed, RunRow, Runs
<1>10. ASSUME NEW q \in Requests, NEW r \in ApiRuns, ApiExecute(q, r)
       PROVE  run'[r1].campaign # run'[r2].campaign
  BY <1>1, <1>4, <1>10, IdAssumption DEF ApiExecute
<1>11. ASSUME UNCHANGED run PROVE run'[r1].campaign # run'[r2].campaign
  BY <1>4, <1>11
<1>12. ASSUME UNCHANGED tables PROVE run'[r1].campaign # run'[r2].campaign
  BY <1>11, <1>12 DEF tables
<1>13. CASE ApiNext
  BY <1>10, <1>11, <1>12, <1>13
  DEF ApiNext, CreateCampaign, ApiLoad, ApiReject, ApiCancel, ApiPublish, ApiFails
<1>14. CASE SchedNext
  BY <1>5, <1>11, <1>12, <1>14
  DEF SchedNext, ClockTick, SchedBoot, SchedSelect, SchedClaimFails, SchedDispatch, SchedDispatchFails, SchedCrash
<1>15. CASE WorkerNext
  <2>1. ASSUME NEW w \in Workers, WorkerStep(w) PROVE run'[r1].campaign # run'[r2].campaign
    BY <1>7, <1>8, <1>9, <1>12, <2>1
    DEF WorkerStep, StartRun, Complete, FetchFails, LoadFailed, RecordFailure, RefreshRun, Retry,
        RetriesExhausted, Ack, At, Busy
  <2>2. ASSUME NEW w \in Workers, WorkerFault(w) PROVE run'[r1].campaign # run'[r2].campaign
    BY <1>7, <1>8, <1>9, <1>12, <2>2
    DEF WorkerFault, StartFails, CompleteFails, LateTimeLimit, RecordFailureFails, RefreshFails, RetryPublishFails,
        ChildLost, WorkerCrash, ConnectionLost, At, Busy
  <2>3. QED
    BY <1>12, <1>15, <2>1, <2>2 DEF WorkerNext, WorkerTake
<1>16. QED
  BY <1>11, <1>12, <1>13, <1>14, <1>15 DEF Next, BrokerNext, Redeliver, vars, tables

\* The two halves of MessagesHoldRuns.
QueuedHold == \A m \in Message : queue[m] + abandoned[m] > 0 => Opened(m.run)
ExecutedHold ==
  \A w \in Workers :
    /\ Busy(w) => worker[w].msg \in Message /\ Opened(RunOf(w))
    /\ worker[w].pc \in {"fetch", "failing", "recording"} => Started(RunOf(w))

\* Messages in the broker are about committed runs.
LEMMA NextQueuedHold ==
  ASSUME IndInv, [Next]_vars
  PROVE  QueuedHold'
<1>1. /\ RowsKept /\ QueuedHold /\ ExecutedHold /\ TypeOK
      /\ queue \in [Message -> Nat] /\ abandoned \in [Message -> Nat]
  BY NextKeepsRows DEF IndInv, MessagesHoldRuns, QueuedHold, ExecutedHold, TypeOK, BrokerTypeOK
<1>2. \A m \in Message : Opened(m.run) => Opened(m.run)'
  BY <1>1, MessageType DEF RowsKept
<1>3. ASSUME UNCHANGED broker PROVE QueuedHold'
  BY <1>1, <1>2, <1>3 DEF QueuedHold, broker
<1>4. ASSUME NEW x \in Message, Opened(x.run), Publish(x) PROVE QueuedHold'
  BY <1>1, <1>2, <1>4 DEF QueuedHold, Publish, Put
<1>5. ASSUME NEW w \in Workers, Busy(w), abandoned' = Put(abandoned, worker[w].msg), UNCHANGED queue
      PROVE  QueuedHold'
  <2>1. worker[w].msg \in Message /\ Opened(worker[w].msg.run)
    BY <1>1, <1>5 DEF ExecutedHold, RunOf
  <2>2. QED
    BY <1>1, <1>2, <1>5, <2>1 DEF QueuedHold, Put
<1>6. ASSUME NEW w \in Workers, NEW m \in Message, WorkerTake(w, m) PROVE QueuedHold'
  BY <1>1, <1>2, <1>6 DEF QueuedHold, WorkerTake, Remove
<1>7. ASSUME NEW m \in Message, Redeliver(m) PROVE QueuedHold'
  BY <1>1, <1>2, <1>7 DEF QueuedHold, Redeliver, Remove, Put
<1>8. ASSUME NEW q \in Requests, ApiPublish(q) PROVE QueuedHold'
  <2>1. api[q].run \in Runs /\ Opened(api[q].run)
    BY <1>8 DEF ApiPublish, IndInv, RequestsHoldRows, Runs
  <2>2. FirstDelivery(api[q].run) \in Message /\ FirstDelivery(api[q].run).run = api[q].run
    BY <2>1, MessageType DEF FirstDelivery
  <2>3. QED
    BY <1>4, <1>8, <2>1, <2>2 DEF ApiPublish
<1>9. ASSUME NEW s \in Schedulers, NEW r \in SchedRuns, SchedDispatch(s, r) PROVE QueuedHold'
  <2>1. r \in Runs /\ Opened(r)
    BY <1>9 DEF SchedDispatch, IndInv, ClaimsHold, Runs
  <2>2. FirstDelivery(r) \in Message /\ FirstDelivery(r).run = r
    BY <2>1, MessageType DEF FirstDelivery
  <2>3. QED
    BY <1>4, <1>9, <2>1, <2>2 DEF SchedDispatch
<1>10. ASSUME NEW w \in Workers, Retry(w) PROVE QueuedHold'
  <2> DEFINE next == [worker[w].msg EXCEPT !.retries = @ + 1]
  <2>1. worker[w].msg \in Message /\ Opened(worker[w].msg.run)
    BY <1>1, <1>10 DEF ExecutedHold, RunOf, Retry, Busy, At
  <2>2. next \in Message
    BY <1>10, <2>1, MessageType DEF Retry
  <2>3. next.run = worker[w].msg.run
    BY <2>1 DEF Message
  <2>4. Publish(next)
    BY <1>10 DEF Retry
  <2>5. QED
    <3> HIDE DEF next
    <3> QED
      BY <1>4, <2>1, <2>2, <2>3, <2>4
<1>11. CASE ApiNext
  BY <1>3, <1>8, <1>11 DEF ApiNext, CreateCampaign, ApiLoad, ApiReject, ApiCancel, ApiExecute, ApiFails
<1>12. CASE SchedNext
  BY <1>3, <1>9, <1>12
  DEF SchedNext, ClockTick, SchedBoot, SchedSelect, SchedCommit, SchedClaimFails, SchedDispatchFails, SchedCrash
<1>13. CASE WorkerNext
  BY <1>3, <1>5, <1>6, <1>10, <1>13
  DEF WorkerNext, WorkerStep, WorkerFault, StartRun, Complete, FetchFails, LoadFailed,
      RecordFailure, RefreshRun, RetriesExhausted, Ack, StartFails, CompleteFails, LateTimeLimit,
      RecordFailureFails, RefreshFails, RetryPublishFails, ChildLost, WorkerCrash, ConnectionLost
<1>14. QED
  BY <1>3, <1>7, <1>11, <1>12, <1>13 DEF Next, BrokerNext, vars

\* Messages being executed are about committed runs, started ones once the
\* target is being fetched.
LEMMA NextExecutedHold ==
  ASSUME IndInv, [Next]_vars
  PROVE  ExecutedHold'
<1>1. /\ RowsKept /\ QueuedHold /\ ExecutedHold /\ TypeOK
      /\ worker \in [Workers -> [pc : {"idle", "start", "fetch", "failing", "recording",
                                       "refresh", "retry", "done"},
                                 msg : Message \cup {NoMessage},
                                 error : {"none", "task", "db"},
                                 dirty : SUBSET Rows]]
      /\ queue \in [Message -> Nat] /\ abandoned \in [Message -> Nat]
      /\ run \in [Runs -> RunRow]
  BY NextKeepsRows
  DEF IndInv, MessagesHoldRuns, QueuedHold, ExecutedHold, TypeOK, WorkerTypeOK, BrokerTypeOK, StoreTypeOK
<1>2. \A m \in Message : (Opened(m.run) => Opened(m.run)') /\ (Started(m.run) => Started(m.run)')
  BY <1>1, MessageType DEF RowsKept
<1> DEFINE Holds(x) ==
             /\ x.pc # "idle" => x.msg \in Message /\ run'[x.msg.run].status # "none"
             /\ x.pc \in {"fetch", "failing", "recording"} => run'[x.msg.run].status \notin {"none", "queued"}
<1>3. \A w \in Workers : Holds(worker[w])
  BY <1>1, <1>2 DEF ExecutedHold, Busy, At, RunOf, Opened, Started
<1>4. SUFFICES \A w \in Workers : Holds(worker'[w])
  BY DEF ExecutedHold, Busy, At, RunOf, Opened, Started
<1>5. ASSUME UNCHANGED worker PROVE \A w \in Workers : Holds(worker'[w])
  BY <1>3, <1>5
<1>6. ASSUME NEW w \in Workers, NEW x, worker' = [worker EXCEPT ![w] = x], Holds(x)
      PROVE  \A v \in Workers : Holds(worker'[v])
  BY <1>1, <1>3, <1>6
<1>7. ASSUME NEW w \in Workers, worker' = [worker EXCEPT ![w] = IdleWorker]
      PROVE  \A v \in Workers : Holds(worker'[v])
  <2>1. Holds(IdleWorker)
    BY DEF IdleWorker
  <2>2. QED
    <3> HIDE DEF Holds
    <3> QED
      BY <1>6, <1>7, <2>1
<1>8. ASSUME NEW w \in Workers, NEW m \in Message, WorkerTake(w, m) PROVE \A v \in Workers : Holds(worker'[v])
  <2> DEFINE x == [IdleWorker EXCEPT !.pc = "start", !.msg = m]
  <2>1. Opened(m.run)'
    BY <1>1, <1>2, <1>8 DEF WorkerTake, QueuedHold
  <2>2. x.pc = "start" /\ x.msg = m
    BY DEF IdleWorker
  <2>3. worker' = [worker EXCEPT ![w] = x]
    BY <1>8 DEF WorkerTake
  <2>4. Holds(x)
    BY <2>1, <2>2 DEF Opened
  <2>5. QED
    <3> HIDE DEF Holds, x
    <3> QED
      BY <1>6, <2>3, <2>4
\* A step of a busy slot that keeps its message.
<1>9. ASSUME NEW w \in Workers, Busy(w), worker'[w].msg = worker[w].msg,
             \A v \in Workers : v # w => worker'[v] = worker[v],
             worker'[w].pc \in {"fetch", "failing", "recording"} => Started(RunOf(w))'
      PROVE  \A v \in Workers : Holds(worker'[v])
  <2>1. Holds(worker'[w])
    BY <1>3, <1>9 DEF Busy, At, RunOf, Started
  <2>2. QED
    <3> HIDE DEF Holds
    <3> QED
      BY <1>3, <1>9, <2>1
<1>10. ASSUME NEW w \in Workers,
              RefreshRun(w) \/ RefreshFails(w) \/ Retry(w) \/ RetriesExhausted(w) \/ RetryPublishFails(w)
       PROVE  \A v \in Workers : Holds(worker'[v])
  <2>1. /\ Busy(w) /\ worker'[w].msg = worker[w].msg
        /\ \A v \in Workers : v # w => worker'[v] = worker[v]
        /\ worker'[w].pc \in {"done", "retry"}
    <3>1. CASE RefreshRun(w)
      BY <1>1, <3>1 DEF RefreshRun, Goto, Busy, At
    <3>2. CASE RefreshFails(w)
      BY <1>1, <3>2 DEF RefreshFails, Raise, Busy, At
    <3>3. CASE Retry(w)
      BY <1>1, <3>3 DEF Retry, Goto, Busy, At
    <3>4. CASE RetriesExhausted(w)
      BY <1>1, <3>4 DEF RetriesExhausted, Goto, Busy, At
    <3>5. CASE RetryPublishFails(w)
      BY <1>1, <3>5 DEF RetryPublishFails, Goto, Busy, At
    <3>6. QED
      BY <1>10, <3>1, <3>2, <3>3, <3>4, <3>5
  <2>2. QED
    BY <1>9, <2>1
<1>11. ASSUME NEW w \in Workers, StartRun(w) PROVE \A v \in Workers : Holds(worker'[v])
  <2>1. /\ Busy(w) /\ worker'[w].msg = worker[w].msg
        /\ \A v \in Workers : v # w => worker'[v] = worker[v]
    BY <1>1, <1>11 DEF StartRun, Goto, Busy, At
  <2>2. RunOf(w) \in Runs
    BY <1>1, <2>1, MessageType DEF ExecutedHold, RunOf
  <2>3. run'[RunOf(w)].status = "running" /\ worker'[w].msg.run = RunOf(w)
    BY <1>1, <1>11, <2>1, <2>2 DEF StartRun, MarkBoth, RunRow, RunOf
  <2>4. Started(RunOf(w))'
    BY <2>1, <2>3 DEF Started, RunOf
  <2>5. QED
    BY <1>9, <2>1, <2>4
<1>12. ASSUME NEW w \in Workers,
              \/ \E a \in BOOLEAN : StartFails(w, a) \/ RecordFailureFails(w, a)
              \/ Complete(w) \/ RecordFailure(w)
       PROVE  \A v \in Workers : Holds(worker'[v])
  <2>1. /\ Busy(w) /\ worker'[w].msg = worker[w].msg
        /\ \A v \in Workers : v # w => worker'[v] = worker[v]
        /\ worker'[w].pc \in {"done", "retry", "refresh"}
    <3>1. CASE \E a \in BOOLEAN : StartFails(w, a)
      BY <1>1, <3>1 DEF StartFails, Raise, Busy, At
    <3>2. CASE \E a \in BOOLEAN : RecordFailureFails(w, a)
      BY <1>1, <3>2 DEF RecordFailureFails, Busy, At
    <3>3. CASE Complete(w)
      BY <1>1, <3>3 DEF Complete, Goto, Busy, At
    <3>4. CASE RecordFailure(w)
      BY <1>1, <3>4 DEF RecordFailure, Busy, At
    <3>5. QED
      BY <1>12, <3>1, <3>2, <3>3, <3>4
  <2>2. QED
    BY <1>9, <2>1
<1>13. ASSUME NEW w \in Workers, \/ FetchFails(w) \/ LoadFailed(w) \/ LateTimeLimit(w)
              \/ \E e \in {"db", "task"}, a \in BOOLEAN : CompleteFails(w, e, a)
       PROVE  \A v \in Workers : Holds(worker'[v])
  <2>1. /\ Busy(w) /\ worker'[w].msg = worker[w].msg
        /\ \A v \in Workers : v # w => worker'[v] = worker[v]
        /\ worker[w].pc \in {"fetch", "failing"}
    <3>1. CASE FetchFails(w) \/ LateTimeLimit(w)
      BY <1>1, <3>1 DEF FetchFails, LateTimeLimit, HandleUnread, Busy, At
    <3>2. CASE LoadFailed(w)
      BY <1>1, <3>2 DEF LoadFailed, Busy, At
    <3>3. CASE \E e \in {"db", "task"}, a \in BOOLEAN : CompleteFails(w, e, a)
      BY <1>1, <3>3 DEF CompleteFails, Raise, Busy, At
    <3>4. QED
      BY <1>13, <3>1, <3>2, <3>3
  <2>2. worker[w].msg \in Message /\ Started(worker[w].msg.run)
    BY <1>1, <2>1 DEF ExecutedHold, RunOf
  <2>3. Started(RunOf(w))'
    BY <1>2, <2>1, <2>2 DEF RunOf, Started
  <2>4. QED
    BY <1>9, <2>1, <2>3
<1>14. CASE WorkerNext
  <2>1. ASSUME NEW w \in Workers, WorkerStep(w) PROVE \A v \in Workers : Holds(worker'[v])
    <3> HIDE DEF Holds
    <3> QED
      BY <1>7, <1>10, <1>11, <1>12, <1>13, <2>1 DEF WorkerStep, Ack
  <2>2. ASSUME NEW w \in Workers, WorkerFault(w) PROVE \A v \in Workers : Holds(worker'[v])
    <3> HIDE DEF Holds
    <3> QED
      BY <1>5, <1>7, <1>10, <1>12, <1>13, <2>2 DEF WorkerFault, ChildLost, WorkerCrash, ConnectionLost
  <2>3. QED
    <3> HIDE DEF Holds
    <3> QED
      BY <1>8, <1>14, <2>1, <2>2 DEF WorkerNext
<1>15. QED
  BY <1>5, <1>14 DEF Next, vars

\* Both together.
LEMMA NextMessagesHoldRuns ==
  ASSUME IndInv, [Next]_vars
  PROVE  MessagesHoldRuns'
BY NextQueuedHold, NextExecutedHold DEF MessagesHoldRuns, QueuedHold, ExecutedHold

-----------------------------------------------------------------------------
(* Nothing unfinished is lost: one case per actor, each from the fact that  *)
(* no message leaves the broker except with the worker that takes it.       *)

Unfinished(r) == run[r].status \in {"queued", "running"}

\* Every step hands an unfinished run on, or ends it, or gives it up.
LEMMA NextUnfinishedRunHasCarrier ==
  ASSUME IndInv, [Next]_vars
  PROVE  UnfinishedRunHasCarrier'
<1> SUFFICES ASSUME NEW r \in Runs, Unfinished(r)', r \notin dropped' PROVE Carried(r)'
  BY DEF UnfinishedRunHasCarrier, Unfinished
<1>1. /\ run \in [Runs -> RunRow]
      /\ queue \in [Message -> Nat] /\ abandoned \in [Message -> Nat]
      /\ sched \in [Schedulers -> [pc : {"down", "idle", "claiming", "dispatching"},
                                   batch : SUBSET Campaigns, pending : SUBSET SchedRuns]]
      /\ worker \in [Workers -> [pc : {"idle", "start", "fetch", "failing", "recording",
                                       "refresh", "retry", "done"},
                                 msg : Message \cup {NoMessage},
                                 error : {"none", "task", "db"},
                                 dirty : SUBSET Rows]]
      /\ ApiTypeOK /\ ClaimsHold /\ RequestsHoldRows /\ MessagesHoldRuns
  BY DEF IndInv, TypeOK, StoreTypeOK, BrokerTypeOK, SchedTypeOK, WorkerTypeOK
<1>2. Unfinished(r) /\ r \notin dropped => Carried(r)
  BY DEF IndInv, UnfinishedRunHasCarrier, Unfinished
<1>3. ASSUME UNCHANGED <<run, dropped, api, sched, broker, worker>> PROVE Carried(r)'
  BY <1>2, <1>3
  DEF Unfinished, Carried, ApiCarries, SchedCarries, InBroker, WorkerCarries, RunOf, At, Dirty, broker

(* The bags of the broker only lose what a worker takes.                    *)
<1> DEFINE BagsKept == \A m \in Message : queue[m] + abandoned[m] > 0 => queue'[m] + abandoned'[m] > 0
<1>4. ASSUME UNCHANGED broker PROVE BagsKept
  BY <1>4 DEF broker
<1>5. ASSUME NEW m \in Message, Publish(m) PROVE BagsKept /\ queue'[m] + abandoned'[m] > 0
  BY <1>1, <1>5 DEF Publish, Put
<1>6. ASSUME NEW m \in Message, UNCHANGED queue, abandoned' = Put(abandoned, m)
      PROVE  BagsKept /\ queue'[m] + abandoned'[m] > 0
  BY <1>1, <1>6 DEF Put
<1>7. BagsKept /\ InBroker(r) => InBroker(r)'
  BY DEF InBroker

<1>8. CASE ApiNext /\ UNCHANGED <<sched, worker>>
  <2>1. ASSUME NEW q \in Requests, ApiFails(q) PROVE Carried(r)'
    <3>1. Unfinished(r) /\ r \notin dropped /\ ~ApiCarries(q, r)
      BY <1>1, <2>1 DEF ApiFails, ApiCarries, Unfinished, tables
    <3>2. \A p \in Requests : p # q => api'[p] = api[p]
      BY <2>1 DEF ApiFails
    <3>3. \A p \in Requests : ApiCarries(p, r) => ApiCarries(p, r)'
      BY <3>1, <3>2 DEF ApiCarries
    <3>4. UNCHANGED broker
      BY <2>1 DEF ApiFails
    <3>5. QED
      BY <1>2, <1>4, <1>7, <1>8, <3>1, <3>3, <3>4
      DEF Carried, SchedCarries, WorkerCarries, RunOf, At, Dirty
  <2>2. ASSUME NEW q \in Requests, ApiPublish(q) PROVE Carried(r)'
    <3>1. Unfinished(r) /\ r \notin dropped
      BY <2>2 DEF ApiPublish, Unfinished, tables, history
    <3>2. api[q].run \in Runs /\ FirstDelivery(api[q].run) \in Message /\ Publish(FirstDelivery(api[q].run))
      BY <1>1, <2>2, MessageType DEF ApiPublish, RequestsHoldRows, Runs
    <3>3. BagsKept /\ (api[q].run = r => InBroker(r)')
      BY <1>5, <3>2 DEF InBroker, FirstDelivery
    <3>4. \A p \in Requests : p # q => api'[p] = api[p]
      BY <2>2 DEF ApiPublish
    <3>5. \A p \in Requests : ApiCarries(p, r) => ApiCarries(p, r)' \/ InBroker(r)'
      BY <3>3, <3>4 DEF ApiCarries
    <3>6. QED
      BY <1>2, <1>7, <1>8, <3>1, <3>3, <3>5
      DEF Carried, SchedCarries, WorkerCarries, RunOf, At, Dirty
  <2>3. ASSUME NEW q \in Requests, NEW x \in ApiRuns, ApiExecute(q, x) PROVE Carried(r)'
    <3>1. ApiCarries(q, x)' /\ ~ApiCarries(q, r)
      BY <1>1, <2>3 DEF ApiExecute, ApiCarries, ApiTypeOK, Executing
    <3>2. CASE r = x
      BY <3>1, <3>2 DEF Carried
    <3>3. CASE r # x
      <4>1. Unfinished(r) /\ r \notin dropped /\ UNCHANGED broker
        BY <1>1, <2>3, <3>3 DEF ApiExecute, Unfinished, history
      <4>2. \A p \in Requests : p # q => api'[p] = api[p]
        BY <2>3 DEF ApiExecute
      <4>3. \A p \in Requests : ApiCarries(p, r) => ApiCarries(p, r)'
        BY <3>1, <4>2 DEF ApiCarries
      <4>4. QED
        BY <1>2, <1>4, <1>7, <1>8, <4>1, <4>3
        DEF Carried, SchedCarries, WorkerCarries, RunOf, At, Dirty
    <3>4. QED
      BY <3>2, <3>3
  <2>4. ASSUME NEW q \in Requests,
               \/ ApiReject(q) \/ ApiCancel(q)
               \/ \E c \in Campaigns, op \in {"cancel", "execute"} : ApiLoad(q, c, op)
        PROVE  Carried(r)'
    <3>1. /\ Unfinished(r) /\ r \notin dropped /\ UNCHANGED broker
          /\ ~ApiCarries(q, r)
          /\ \A p \in Requests : p # q => api'[p] = api[p]
      <4>1. CASE ApiReject(q)
        BY <4>1 DEF ApiReject, ApiCarries, Unfinished, tables, history
      <4>2. CASE ApiCancel(q)
        BY <4>2 DEF ApiCancel, ApiCarries, Unfinished, history
      <4>3. ASSUME NEW c \in Campaigns, NEW op \in {"cancel", "execute"}, ApiLoad(q, c, op)
            PROVE  /\ Unfinished(r) /\ r \notin dropped /\ UNCHANGED broker
                   /\ ~ApiCarries(q, r)
                   /\ \A p \in Requests : p # q => api'[p] = api[p]
        BY <4>3 DEF ApiLoad, ApiCarries, Unfinished, tables, history
      <4>4. QED
        BY <2>4, <4>1, <4>2, <4>3
    <3>2. \A p \in Requests : ApiCarries(p, r) => ApiCarries(p, r)'
      BY <3>1 DEF ApiCarries
    <3>3. QED
      BY <1>2, <1>4, <1>7, <1>8, <3>1, <3>2
      DEF Carried, SchedCarries, WorkerCarries, RunOf, At, Dirty
  <2>5. ASSUME NEW c \in Campaigns, NEW s \in Schedule, CreateCampaign(c, s) PROVE Carried(r)'
    BY <1>3, <1>8, <2>5 DEF CreateCampaign, history
  <2>6. QED
    BY <1>8, <2>1, <2>2, <2>3, <2>4, <2>5 DEF ApiNext

<1>9. CASE SchedNext /\ UNCHANGED <<api, worker>>
  \* A step of s that keeps the runs and hands on what was pending.
  <2>1. ASSUME NEW s \in Schedulers, UNCHANGED run, BagsKept, r \notin dropped,
               \A t \in Schedulers : t # s => sched'[t] = sched[t],
               SchedCarries(s, r) => SchedCarries(s, r)' \/ InBroker(r)'
        PROVE  Carried(r)'
    <3>1. Unfinished(r)
      BY <2>1 DEF Unfinished
    <3>2. \A t \in Schedulers : SchedCarries(t, r) => SchedCarries(t, r)' \/ InBroker(r)'
      BY <2>1 DEF SchedCarries
    <3>3. QED
      BY <1>2, <1>7, <1>9, <2>1, <3>1, <3>2
      DEF Carried, ApiCarries, WorkerCarries, RunOf, At, Dirty
  <2>2. ASSUME NEW s \in Schedulers, SchedBoot(s) PROVE Carried(r)'
    <3>1. ~SchedCarries(s, r)
      BY <1>1, <2>2 DEF SchedBoot, SchedCarries, ClaimsHold
    <3>2. QED
      BY <1>4, <2>1, <2>2, <3>1 DEF SchedBoot, tables, history
  <2>3. ASSUME NEW s \in Schedulers, NEW b \in SUBSET Campaigns, SchedSelect(s, b) PROVE Carried(r)'
    <3>1. ~SchedCarries(s, r)
      BY <1>1, <2>3 DEF SchedSelect, SchedCarries, ClaimsHold
    <3>2. QED
      BY <1>4, <2>1, <2>3, <3>1 DEF SchedSelect, tables, history
  <2>4. ASSUME NEW s \in Schedulers, SchedClaimFails(s) PROVE Carried(r)'
    <3>1. ~SchedCarries(s, r)
      BY <1>1, <2>4 DEF SchedClaimFails, SchedCarries, ClaimsHold
    <3>2. QED
      BY <1>4, <2>1, <2>4, <3>1 DEF SchedClaimFails, tables
  <2>5. ASSUME NEW s \in Schedulers, SchedDispatchFails(s) \/ SchedCrash(s) PROVE Carried(r)'
    <3>1. /\ UNCHANGED run /\ UNCHANGED broker
          /\ dropped' = dropped \cup sched[s].pending
          /\ \A t \in Schedulers : t # s => sched'[t] = sched[t]
      <4>1. CASE SchedDispatchFails(s)
        BY <4>1 DEF SchedDispatchFails, tables
      <4>2. CASE SchedCrash(s)
        BY <4>2 DEF SchedCrash, tables
      <4>3. QED
        BY <2>5, <4>1, <4>2
    <3>2. QED
      BY <1>4, <2>1, <3>1 DEF SchedCarries
  <2>6. ASSUME NEW s \in Schedulers, NEW x \in SchedRuns, SchedDispatch(s, x) PROVE Carried(r)'
    <3>1. x \in Runs /\ FirstDelivery(x) \in Message /\ Publish(FirstDelivery(x))
      BY <2>6, MessageType DEF SchedDispatch, Runs
    <3>2. BagsKept /\ (x = r => InBroker(r)')
      BY <1>5, <3>1 DEF InBroker, FirstDelivery
    <3>3. \/ sched'[s].pending = sched[s].pending \ {x}
          \/ sched'[s].pending = {} /\ sched[s].pending \ {x} = {}
      BY <1>1, <2>6 DEF SchedDispatch, Scheduled
    <3>4. SchedCarries(s, r) => SchedCarries(s, r)' \/ InBroker(r)'
      BY <3>2, <3>3 DEF SchedCarries
    <3>5. /\ UNCHANGED run /\ r \notin dropped
          /\ \A t \in Schedulers : t # s => sched'[t] = sched[t]
      BY <2>6 DEF SchedDispatch, tables, history
    <3>6. QED
      BY <2>1, <3>2, <3>4, <3>5
  <2>7. ASSUME NEW s \in Schedulers, NEW open \in Openings(sched[s].batch), SchedCommit(s, open)
        PROVE  Carried(r)'
    <3>1. CASE \E c \in sched[s].batch : open[c] = r
      <4>1. r \in sched'[s].pending
        BY <1>1, <2>7, <3>1 DEF SchedCommit, Scheduled
      <4>2. QED
        BY <4>1 DEF Carried, SchedCarries
    <3>2. CASE ~\E c \in sched[s].batch : open[c] = r
      <4>1. run'[r] = run[r] /\ UNCHANGED broker /\ r \notin dropped
        BY <2>7, <3>2 DEF SchedCommit, history
      <4>2. Unfinished(r)
        BY <4>1 DEF Unfinished
      <4>3. ~SchedCarries(s, r)
        BY <1>1, <2>7 DEF SchedCommit, SchedCarries, ClaimsHold
      <4>4. \A t \in Schedulers : SchedCarries(t, r) => SchedCarries(t, r)'
        BY <2>7, <4>3 DEF SchedCommit, SchedCarries
      <4>5. QED
        BY <1>2, <1>4, <1>7, <1>9, <4>1, <4>2, <4>4
        DEF Carried, ApiCarries, WorkerCarries, RunOf, At, Dirty
    <3>3. QED
      BY <3>1, <3>2
  <2>8. ASSUME NEW c \in Campaigns, ClockTick(c) PROVE Carried(r)'
    BY <1>3, <1>9, <2>8 DEF ClockTick, history
  <2>9. QED
    BY <1>9, <2>2, <2>3, <2>4, <2>5, <2>6, <2>7, <2>8 DEF SchedNext
<1>10. CASE WorkerNext /\ UNCHANGED <<api, sched>>
  \* A step of w that keeps the messages and hands the run on if it carried it.
  <2>1. ASSUME NEW w \in Workers, BagsKept,
               \A v \in Workers : v # w => worker'[v] = worker[v],
               (Unfinished(r) /\ r \notin dropped) \/ WorkerCarries(w, r)' \/ InBroker(r)',
               WorkerCarries(w, r) => WorkerCarries(w, r)' \/ InBroker(r)'
        PROVE  Carried(r)'
    <3>1. \A v \in Workers : v # w => (WorkerCarries(v, r) => WorkerCarries(v, r)')
      BY <2>1 DEF WorkerCarries, RunOf, At, Dirty
    <3>2. \A v \in Workers : WorkerCarries(v, r) => WorkerCarries(v, r)' \/ InBroker(r)'
      BY <2>1, <3>1
    <3>3. CASE Unfinished(r) /\ r \notin dropped
      BY <1>2, <1>7, <1>10, <2>1, <3>2, <3>3 DEF Carried, ApiCarries, SchedCarries
    <3>4. CASE WorkerCarries(w, r)' \/ InBroker(r)'
      BY <3>4 DEF Carried
    <3>5. QED
      BY <2>1, <3>3, <3>4
  <2>2. ASSUME NEW w \in Workers, NEW m \in Message, WorkerTake(w, m) PROVE Carried(r)'
    <3>1. /\ Unfinished(r) /\ r \notin dropped
          /\ worker'[w] = [IdleWorker EXCEPT !.pc = "start", !.msg = m]
          /\ \A v \in Workers : v # w => worker'[v] = worker[v]
          /\ ~WorkerCarries(w, r)
      BY <1>1, <2>2 DEF WorkerTake, Unfinished, WorkerCarries, At, tables, history
    <3>2. CASE m.run = r
      <4>1. WorkerCarries(w, r)'
        BY <3>1, <3>2 DEF WorkerCarries, RunOf, IdleWorker
      <4>2. QED
        BY <4>1 DEF Carried
    <3>3. CASE m.run # r
      <4>1. InBroker(r) => InBroker(r)'
        BY <1>1, <2>2, <3>3 DEF InBroker, WorkerTake, Remove
      <4>2. \A v \in Workers : WorkerCarries(v, r) => WorkerCarries(v, r)'
        BY <3>1 DEF WorkerCarries, RunOf, At, Dirty
      <4>3. QED
        BY <1>2, <1>10, <3>1, <4>1, <4>2 DEF Carried, ApiCarries, SchedCarries
    <3>4. QED
      BY <3>2, <3>3
  <2>3. ASSUME NEW w \in Workers, WorkerStep(w) PROVE Carried(r)'
    <3>0. \A p \in Runs : p # RunOf(w) => (MarkBoth(RunOf(w), "running") \/ MarkCompleted(RunOf(w)) \/ WriteFailed(w) => run'[p] = run[p])
      BY <1>1 DEF MarkBoth, MarkCompleted, WriteFailed, Unfinished
    <3>1. CASE StartRun(w)
      <4>1. /\ worker' = [worker EXCEPT ![w].pc = "fetch"]
            /\ UNCHANGED broker /\ r \notin dropped /\ At(w, "start")
            /\ r # RunOf(w) => run'[r] = run[r]
        BY <3>0, <3>1 DEF StartRun, Goto, history
      <4>2. WorkerCarries(w, r)' <=> r = RunOf(w)
        BY <1>1, <4>1 DEF WorkerCarries, RunOf
      <4>3. WorkerCarries(w, r) <=> r = RunOf(w)
        BY <4>1 DEF WorkerCarries, At
      <4>4. QED
        BY <1>4, <2>1, <4>1, <4>2, <4>3 DEF Unfinished
    <3>2. CASE Complete(w)
      <4>1. /\ worker' = [worker EXCEPT ![w].pc = "refresh"]
            /\ UNCHANGED broker /\ r \notin dropped
            /\ r # RunOf(w) => run'[r] = run[r]
        BY <3>0, <3>2 DEF Complete, Goto, history
      <4>2. r # RunOf(w)
        BY <1>1, <3>2 DEF Complete, MarkCompleted, WithFinding, Unfinished
      <4>3. QED
        BY <1>4, <2>1, <4>1, <4>2 DEF Unfinished, WorkerCarries
    <3>3. CASE FetchFails(w)
      <4>1. /\ \A v \in Workers : v # w => worker'[v] = worker[v]
            /\ UNCHANGED broker /\ r \notin dropped /\ Unfinished(r)
        BY <3>3 DEF FetchFails, HandleUnread, Unfinished, tables, history
      <4>2. /\ worker'[w].pc = "recording" /\ worker'[w].msg = worker[w].msg
            /\ "run" \in worker'[w].dirty
        BY <1>1, <3>3 DEF FetchFails, HandleUnread, Rows
      <4>3. QED
        BY <1>4, <2>1, <4>1, <4>2 DEF WorkerCarries, RunOf, At, Dirty
    <3>4. CASE LoadFailed(w)
      <4>1. /\ \A v \in Workers : v # w => worker'[v] = worker[v]
            /\ UNCHANGED broker /\ r \notin dropped /\ Unfinished(r)
        BY <3>4 DEF LoadFailed, Unfinished, tables, history
      <4>2. worker'[w].pc = "recording" /\ worker'[w].msg = worker[w].msg
        BY <1>1, <3>4 DEF LoadFailed
      <4>3. RunOf(w) = r => "run" \in worker'[w].dirty
        <5>1. worker'[w].dirty = {row \in Rows :
                    \/ row = "run" /\ run[RunOf(w)].status # "failed"
                    \/ row = "campaign" /\ campaign[run[RunOf(w)].campaign].status # "failed"}
          BY <1>1, <3>4 DEF LoadFailed
        <5>2. QED
          BY <4>1, <5>1 DEF Unfinished, Rows
      <4>4. QED
        BY <1>4, <2>1, <4>1, <4>2, <4>3 DEF WorkerCarries, RunOf, At, Dirty
    <3>5. CASE RecordFailure(w)
      <4>1. /\ \A v \in Workers : v # w => worker'[v] = worker[v]
            /\ UNCHANGED broker /\ r \notin dropped /\ WriteFailed(w) /\ At(w, "recording")
            /\ r # RunOf(w) => run'[r] = run[r]
        BY <3>0, <3>5 DEF RecordFailure, history
      <4>2. /\ worker'[w].msg = worker[w].msg
            /\ worker[w].error = "db" => worker'[w].pc = "retry"
        BY <1>1, <3>5 DEF RecordFailure
      <4>3. r = RunOf(w) => ~Dirty(w, "run") /\ run' = run
        BY <1>1, <4>1 DEF WriteFailed, Unfinished
      <4>4. QED
        BY <1>4, <2>1, <4>1, <4>2, <4>3 DEF WorkerCarries, RunOf, At, Unfinished
    <3>6. CASE RefreshRun(w)
      <4>1. /\ \A v \in Workers : v # w => worker'[v] = worker[v]
            /\ UNCHANGED broker /\ r \notin dropped /\ Unfinished(r) /\ At(w, "refresh")
        BY <3>6 DEF RefreshRun, Goto, Unfinished, tables, history
      <4>2. QED
        BY <1>4, <2>1, <4>1 DEF WorkerCarries, At
    <3>7. CASE Retry(w)
      <4> DEFINE m == [worker[w].msg EXCEPT !.retries = @ + 1]
      <4>1. /\ \A v \in Workers : v # w => worker'[v] = worker[v]
            /\ r \notin dropped /\ Unfinished(r) /\ Publish(m)
        BY <3>7 DEF Retry, Goto, Unfinished, tables, history
      <4>2. m \in Message /\ m.run = RunOf(w)
        <5>1. worker[w].msg \in Message /\ worker[w].msg.retries < MaxRetries
          BY <1>1, <3>7 DEF Retry, MessagesHoldRuns, At, Busy
        <5>2. m \in Message
          BY <5>1, MessageType
        <5>3. QED
          BY <5>1, <5>2 DEF RunOf, Message
      <4>3. BagsKept /\ (RunOf(w) = r => InBroker(r)')
        BY <1>5, <4>1, <4>2 DEF InBroker
      <4>4. QED
        BY <2>1, <4>1, <4>3 DEF WorkerCarries
    <3>8. CASE RetriesExhausted(w)
      <4>1. /\ \A v \in Workers : v # w => worker'[v] = worker[v]
            /\ UNCHANGED broker /\ r \notin dropped /\ Unfinished(r) /\ r # RunOf(w)
        BY <3>8 DEF RetriesExhausted, Goto, Unfinished, tables
      <4>2. QED
        BY <1>4, <2>1, <4>1 DEF WorkerCarries
    <3>9. CASE Ack(w)
      <4>1. /\ \A v \in Workers : v # w => worker'[v] = worker[v]
            /\ UNCHANGED broker /\ r \notin dropped /\ Unfinished(r) /\ At(w, "done")
        BY <3>9 DEF Ack, Unfinished, tables, history
      <4>2. QED
        BY <1>4, <2>1, <4>1 DEF WorkerCarries, At
    <3>10. QED
      BY <2>3, <3>1, <3>2, <3>3, <3>4, <3>5, <3>6, <3>7, <3>8, <3>9 DEF WorkerStep
  <2>4. ASSUME NEW w \in Workers, WorkerFault(w) PROVE Carried(r)'
    \* An OperationalError that ends in a handler or a retry.
    <3>1. ASSUME \A v \in Workers : v # w => worker'[v] = worker[v],
                 worker'[w].pc \in {"failing", "retry"}, worker'[w].msg = worker[w].msg,
                 UNCHANGED broker, r \notin dropped,
                 r # RunOf(w) => run'[r] = run[r]
          PROVE  Carried(r)'
      <4>1. WorkerCarries(w, r)' <=> r = RunOf(w)
        BY <3>1 DEF WorkerCarries, RunOf
      <4>2. QED
        BY <1>4, <2>1, <3>1, <4>1 DEF WorkerCarries, Unfinished
    <3>2. r # RunOf(w) =>
            (MarkBoth(RunOf(w), "running") \/ MarkCompleted(RunOf(w)) \/ WriteFailed(w)
               \/ UNCHANGED tables => run'[r] = run[r])
      BY <1>1 DEF MarkBoth, MarkCompleted, WriteFailed, tables
    <3>3. ASSUME NEW applied \in BOOLEAN, StartFails(w, applied) PROVE Carried(r)'
      BY <1>1, <3>1, <3>2, <3>3 DEF StartFails, Raise
    <3>4. ASSUME NEW error \in {"db", "task"}, NEW applied \in BOOLEAN, CompleteFails(w, error, applied)
          PROVE  Carried(r)'
      BY <1>1, <3>1, <3>2, <3>4 DEF CompleteFails, Raise
    <3>5. ASSUME NEW applied \in BOOLEAN, RecordFailureFails(w, applied) PROVE Carried(r)'
      BY <1>1, <3>1, <3>2, <3>5 DEF RecordFailureFails
    <3>6. CASE RefreshFails(w)
      BY <1>1, <3>1, <3>2, <3>6 DEF RefreshFails, Raise
    <3>7. CASE RetryPublishFails(w)
      <4>1. /\ \A v \in Workers : v # w => worker'[v] = worker[v]
            /\ UNCHANGED broker /\ r \notin dropped /\ Unfinished(r) /\ r # RunOf(w)
        BY <3>7 DEF RetryPublishFails, Goto, Unfinished, tables
      <4>2. QED
        BY <1>4, <2>1, <4>1 DEF WorkerCarries
    <3>8. CASE ChildLost(w)
      <4>1. /\ \A v \in Workers : v # w => worker'[v] = worker[v]
            /\ UNCHANGED broker /\ r \notin dropped /\ Unfinished(r) /\ r # RunOf(w)
        BY <3>8 DEF ChildLost, Unfinished, tables
      <4>2. QED
        BY <1>4, <2>1, <4>1 DEF WorkerCarries
    <3>9. CASE WorkerCrash(w) \/ ConnectionLost(w)
      <4>1. /\ \A v \in Workers : v # w => worker'[v] = worker[v]
            /\ r \notin dropped /\ Unfinished(r) /\ Busy(w)
            /\ UNCHANGED queue /\ abandoned' = Put(abandoned, worker[w].msg)
        <5>1. CASE WorkerCrash(w)
          BY <5>1 DEF WorkerCrash, Unfinished, tables
        <5>2. CASE ConnectionLost(w)
          BY <5>2 DEF ConnectionLost, Unfinished, tables
        <5>3. QED
          BY <3>9, <5>1, <5>2
      <4>2. worker[w].msg \in Message
        BY <1>1, <4>1 DEF MessagesHoldRuns
      <4>3. BagsKept /\ (RunOf(w) = r => InBroker(r)')
        BY <1>6, <4>1, <4>2 DEF InBroker, RunOf
      <4>4. QED
        BY <2>1, <4>1, <4>3 DEF WorkerCarries
    <3>10. CASE LateTimeLimit(w)
      <4>1. /\ \A v \in Workers : v # w => worker'[v] = worker[v]
            /\ UNCHANGED broker /\ r \notin dropped /\ MarkCompleted(RunOf(w))
        BY <3>10 DEF LateTimeLimit, HandleUnread
      <4>2. r # RunOf(w)
        BY <1>1, <4>1 DEF MarkCompleted, WithFinding, Unfinished
      <4>3. QED
        BY <1>4, <2>1, <3>2, <4>1, <4>2 DEF Unfinished, WorkerCarries
    <3>11. QED
      BY <2>4, <3>3, <3>4, <3>5, <3>6, <3>7, <3>8, <3>9, <3>10 DEF WorkerFault
  <2>5. QED
    BY <1>10, <2>2, <2>3, <2>4 DEF WorkerNext
<1>11. CASE BrokerNext /\ UNCHANGED <<api, sched, worker>>
  <2>1. PICK m \in Message : Redeliver(m)
    BY <1>11 DEF BrokerNext
  <2>2. BagsKept
    BY <1>1, <2>1 DEF Redeliver, Put, Remove
  <2>3. Unfinished(r) /\ r \notin dropped
    BY <2>1 DEF Redeliver, Unfinished, tables, history
  <2>4. QED
    BY <1>2, <1>7, <1>11, <2>2, <2>3
    DEF Carried, ApiCarries, SchedCarries, WorkerCarries, RunOf, At, Dirty
<1>12. QED
  BY <1>3, <1>8, <1>9, <1>10, <1>11 DEF Next, vars, tables, history

-----------------------------------------------------------------------------
(* Cancellation: who could still write the campaign would be in flight.     *)

\* A cancelled campaign that nothing in flight can reach stays cancelled.
LEMMA CancelledStays ==
  ASSUME IndInv, [Next]_vars, NEW c \in Campaigns, campaign[c].status = "cancelled", ~InFlight(c)
  PROVE  campaign'[c].status = "cancelled"
<1>1. /\ campaign \in [Campaigns -> CampaignRow] /\ RunsHaveCampaigns /\ MessagesHoldRuns /\ ClaimsHold
  BY DEF IndInv, TypeOK, StoreTypeOK
<1>3. ASSUME NEW w \in Workers, Busy(w)
      PROVE  run[RunOf(w)].campaign \in Campaigns /\ run[RunOf(w)].campaign # c
  <2>1. RunOf(w) \in Runs /\ Opened(RunOf(w))
    BY <1>1, <1>3, MessageType DEF MessagesHoldRuns, RunOf
  <2>2. run[RunOf(w)].campaign # c
    BY <2>1 DEF InFlight
  <2>3. QED
    BY <1>1, <2>1, <2>2 DEF RunsHaveCampaigns
<1>4. ASSUME UNCHANGED tables PROVE campaign'[c].status = "cancelled"
  BY <1>4 DEF tables
<1>5. CASE ApiNext
  <2>1. ASSUME NEW d \in Campaigns, NEW s \in Schedule, CreateCampaign(d, s)
        PROVE  campaign'[c].status = "cancelled"
    BY <1>1, <2>1 DEF CreateCampaign
  <2>2. ASSUME NEW q \in Requests, ApiCancel(q) PROVE campaign'[c].status = "cancelled"
    BY <1>1, <2>2 DEF ApiCancel, CampaignRow
  <2>3. ASSUME NEW q \in Requests, NEW r \in ApiRuns, ApiExecute(q, r)
        PROVE  campaign'[c].status = "cancelled"
    <3>1. api[q].pc = "loaded" /\ api[q].seen # "cancelled"
      BY <2>3 DEF ApiExecute, Executing, Accepts
    <3>2. api[q].campaign # c
      BY <3>1 DEF InFlight
    <3>3. QED
      BY <1>1, <2>3, <3>2 DEF ApiExecute
  <2>4. QED
    BY <1>4, <1>5, <2>1, <2>2, <2>3
    DEF ApiNext, ApiLoad, ApiReject, ApiPublish, ApiFails
<1>6. CASE SchedNext
  <2>1. ASSUME NEW d \in Campaigns, ClockTick(d) PROVE campaign'[c].status = "cancelled"
    BY <1>1, <2>1 DEF ClockTick, CampaignRow
  <2>2. ASSUME NEW s \in Schedulers, NEW open \in Openings(sched[s].batch), SchedCommit(s, open)
        PROVE  campaign'[c].status = "cancelled"
    <3>1. c \notin sched[s].batch
      BY <1>1 DEF ClaimsHold, Due
    <3>2. QED
      BY <2>2, <3>1 DEF SchedCommit
  <2>3. QED
    BY <1>4, <1>6, <2>1, <2>2
    DEF SchedNext, SchedBoot, SchedSelect, SchedClaimFails, SchedDispatch, SchedDispatchFails, SchedCrash
<1>7. ASSUME NEW w \in Workers, Busy(w)
      PROVE  MarkBoth(RunOf(w), "running") \/ MarkCompleted(RunOf(w)) \/ WriteFailed(w) =>
               campaign'[c].status = "cancelled"
  BY <1>1, <1>3, <1>7 DEF MarkBoth, MarkCompleted, WriteFailed
<1>8. CASE WorkerNext
  <2>1. ASSUME NEW w \in Workers, WorkerStep(w) PROVE campaign'[c].status = "cancelled"
    BY <1>4, <1>7, <2>1
    DEF WorkerStep, StartRun, Complete, FetchFails, LoadFailed, RecordFailure, RefreshRun, Retry,
        RetriesExhausted, Ack, At, Busy
  <2>2. ASSUME NEW w \in Workers, WorkerFault(w) PROVE campaign'[c].status = "cancelled"
    BY <1>4, <1>7, <2>2
    DEF WorkerFault, StartFails, CompleteFails, LateTimeLimit, RecordFailureFails, RefreshFails, RetryPublishFails,
        ChildLost, WorkerCrash, ConnectionLost, At, Busy
  <2>3. QED
    BY <1>4, <1>8, <2>1, <2>2 DEF WorkerNext, WorkerTake
<1>9. QED
  BY <1>4, <1>5, <1>6, <1>8 DEF Next, BrokerNext, Redeliver, vars

-----------------------------------------------------------------------------
(* The theorems.                                                            *)

\* The strengthened invariant is inductive.
LEMMA NextIndInv ==
  ASSUME IndInv, [Next]_vars
  PROVE  IndInv'
BY NextTypeOK, NextKeepsRows, NextRequestsHoldRows, NextClaimsHold, NextMessagesHoldRuns,
   NextUnfinishedRunHasCarrier, NextClaimedOnce
DEF IndInv

\* The strengthened invariant: what every request, scheduler, message and worker
\* remembers of the tables is still true of them, in every reachable state.
THEOREM Invariance == Spec => []IndInv
<1>1. Init => IndInv
  BY InitIndInv
<1>2. IndInv /\ [Next]_vars => IndInv'
  BY NextIndInv
<1>3. QED
  BY <1>1, <1>2, PTL DEF Spec

\* Every row, message and process record keeps its type, so no message is taken
\* from an empty queue and no status column leaves its enum.
THEOREM TypeCorrect == Spec => []TypeOK
<1>1. IndInv => TypeOK
  BY DEF IndInv
<1>2. QED
  BY <1>1, Invariance, PTL

\* A run that is queued or running is in somebody's hands, or is one of those
\* the commit-then-publish gaps and the task's limits are known to give up.
THEOREM NothingLost == Spec => []UnfinishedRunHasCarrier
<1>1. IndInv => UnfinishedRunHasCarrier
  BY DEF IndInv
<1>2. QED
  BY <1>1, Invariance, PTL

\* FOR UPDATE SKIP LOCKED works: however many schedulers poll, a due campaign
\* gets one run from them, in any number of rounds.
THEOREM NoDoubleClaim == Spec => []ClaimedOnce
<1>1. IndInv => ClaimedOnce
  BY DEF IndInv
<1>2. QED
  BY <1>1, Invariance, PTL

\* The tables implement RunLedger, the life of campaigns and runs without the
\* processes, messages, locks and faults that bring it about.
THEOREM Refinement == Spec => RefinesLedger
<1>1. Init => Ledger!Init
  BY DEF Init, StoreInit, Ledger!Init
<1>2. IndInv /\ [Next]_vars => [Ledger!Next]_(Ledger!ledger)
  BY LedgerStep
<1>3. QED
  BY <1>1, <1>2, Invariance, PTL DEF Spec, RefinesLedger, Ledger!Spec

\* Once nothing that began before it is under way, a cancellation stands: no new
\* request and no scheduler brings the campaign back.
THEOREM CancellationFinal == Spec => CancelIsFinal
<1>1. IndInv /\ [Next]_vars =>
        \A c \in Campaigns :
          campaign[c].status = "cancelled" /\ ~InFlight(c) => campaign'[c].status = "cancelled"
  BY CancelledStays
<1>2. QED
  BY <1>1, Invariance, PTL DEF Spec, CancelIsFinal
=============================================================================
