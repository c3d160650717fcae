------------------------------- MODULE Worker -------------------------------
(***************************************************************************)
(* A Celery worker slot that executes hcvf.execute_campaign: the task of   *)
(* worker/tasks.py (late acknowledgement, automatic retry on               *)
(* OperationalError) around CampaignPipeline.execute of worker/pipeline.py.*)
(***************************************************************************)
EXTENDS Broker

CONSTANT Workers    \* worker slots, one task at a time each

VARIABLE worker     \* what each slot is doing

(***************************************************************************)
(* pc       the next thing the slot does: "start" the first transaction,   *)
(*          "fetch" the target and commit the result, read the rows again  *)
(*          after a commit that broke ("failing"), commit the failure      *)
(*          ("recording"), "refresh" the run, "retry" the task, "done" (to *)
(*          acknowledge).                                                  *)
(* msg      the message being executed                                     *)
(* error    the exception in flight: "none", "task", or "db" for           *)
(*          OperationalError, the only one the task retries                *)
(* dirty    rows the failure handler holds in another status than failed:  *)
(*          the ones SQLAlchemy will UPDATE                                *)
(***************************************************************************)
IdleWorker == [pc |-> "idle", msg |-> NoMessage, error |-> "none", dirty |-> {}]

WorkerInit == worker = [w \in Workers |-> IdleWorker]

\* The rows the failure handler writes.
Rows == {"run", "campaign"}

WorkerTypeOK ==
  worker \in [Workers -> [pc : {"idle", "start", "fetch", "failing", "recording",
                                "refresh", "retry", "done"},
                          msg : Message \cup {NoMessage},
                          error : {"none", "task", "db"},
                          dirty : SUBSET Rows]]

RunOf(w) == worker[w].msg.run
At(w, pc) == worker[w].pc = pc
Busy(w) == ~At(w, "idle")

Goto(w, pc) == worker' = [worker EXCEPT ![w].pc = pc]
Raise(w, pc, error) == worker' = [worker EXCEPT ![w] = [@ EXCEPT !.pc = pc, !.error = error]]

\* The failure handler's UPDATE must write this row.
Dirty(w, row) == row \in worker[w].dirty

-----------------------------------------------------------------------------
\* A definition X_... marked "Slip" is not part of the system: it is X with one
\* plausible mistake, used to show that a property would catch that mistake.

\* Slip: the message is delivered without being reserved.
WorkerTake_NotReserved(w, m) ==
  /\ At(w, "idle")
  /\ queue[m] > 0
  /\ worker' = [worker EXCEPT ![w] = [IdleWorker EXCEPT !.pc = "start", !.msg = m]]
  /\ UNCHANGED <<tables, rowLocks, history, broker>>

\* Slip: the transaction that marks the run running is left out.
WorkerTake_NoStart(w, m) ==
  /\ At(w, "idle")
  /\ queue[m] > 0
  /\ queue' = Remove(queue, m)
  /\ worker' = [worker EXCEPT ![w] = [IdleWorker EXCEPT !.pc = "fetch", !.msg = m]]
  /\ UNCHANGED <<tables, rowLocks, history, abandoned>>

\* The consumer receives a message.
WorkerTake(w, m) ==
  /\ At(w, "idle")
  /\ queue[m] > 0
  /\ queue' = Remove(queue, m)
  /\ worker' = [worker EXCEPT ![w] = [IdleWorker EXCEPT !.pc = "start", !.msg = m]]
  /\ UNCHANGED <<tables, rowLocks, history, abandoned>>

\* Slip: only the run is marked running, not its campaign.
StartRun_RunOnly(w) ==
  /\ At(w, "start")
  /\ run' = [run EXCEPT ![RunOf(w)].status = "running"]
  /\ Goto(w, "fetch")
  /\ UNCHANGED <<campaign, rowLocks, history, broker>>

\* Slip: the statuses are set and never committed.
StartRun_Uncommitted(w) ==
  /\ At(w, "start")
  /\ Goto(w, "fetch")
  /\ UNCHANGED <<tables, rowLocks, history, broker>>

\* The first transaction: whatever the run's status, run and campaign become
\* running.  The campaign is read without a lock and its status is not tested.
StartRun(w) ==
  /\ At(w, "start")
  /\ Unlocked(run[RunOf(w)].campaign)
  /\ MarkBoth(RunOf(w), "running")
  /\ Goto(w, "fetch")
  /\ UNCHANGED <<rowLocks, history, broker>>

\* OperationalError in the first transaction, outside the try: the task retries.
\* A commit whose answer is lost may have been applied.
StartFails(w, applied) ==
  /\ Fault("db")
  /\ At(w, "start")
  /\ IF applied
       THEN Unlocked(run[RunOf(w)].campaign) /\ MarkBoth(RunOf(w), "running")
       ELSE UNCHANGED tables
  /\ Raise(w, "retry", "db")
  /\ UNCHANGED <<rowLocks, dropped, duplicated, broker>>

\* The target answered: finding, run and campaign in one commit.
Complete(w) ==
  /\ At(w, "fetch")
  /\ Unlocked(run[RunOf(w)].campaign)
  /\ MarkCompleted(RunOf(w))
  /\ Goto(w, "refresh")
  /\ UNCHANGED <<rowLocks, history, broker>>

\* except, with no transaction open: the rollback does nothing and db.get answers
\* from the session, whose rows still have the status this task gave them last.
\* It is not failed, so both will be written.
HandleUnread(w) ==
  worker' = [worker EXCEPT ![w] = [@ EXCEPT !.pc = "recording", !.error = "task", !.dirty = Rows]]

\* The runner raises (an httpx error, the soft time limit).
FetchFails(w) ==
  /\ At(w, "fetch")
  /\ HandleUnread(w)
  /\ UNCHANGED <<tables, rowLocks, history, broker>>

\* The commit of the result breaks, inside the try: OperationalError, or the soft
\* time limit, which is not retried.  It may have been applied.
CompleteFails(w, error, applied) ==
  /\ Fault(IF error = "db" THEN "db" ELSE "time")
  /\ At(w, "fetch")
  /\ IF applied
       THEN Unlocked(run[RunOf(w)].campaign) /\ MarkCompleted(RunOf(w))
       ELSE UNCHANGED tables
  /\ Raise(w, "failing", error)
  /\ UNCHANGED <<rowLocks, dropped, duplicated, broker>>

\* The soft time limit strikes after that commit, still inside the try: the
\* handler will write failed over the result.
LateTimeLimit(w) ==
  /\ Fault("time")
  /\ At(w, "fetch")
  /\ Unlocked(run[RunOf(w)].campaign)
  /\ MarkCompleted(RunOf(w))
  /\ HandleUnread(w)
  /\ UNCHANGED <<rowLocks, dropped, duplicated, broker>>

\* except, after a commit that broke: the rollback expires the rows, and db.get
\* reads run and campaign again, without locks.
LoadFailed(w) ==
  LET r == RunOf(w)
      c == run[r].campaign
  IN
  /\ At(w, "failing")
  /\ worker' = [worker EXCEPT ![w] = [@ EXCEPT
       !.pc = "recording",
       !.dirty = {row \in Rows :
                    \/ row = "run" /\ run[r].status # "failed"
                    \/ row = "campaign" /\ campaign[c].status # "failed"}]]
  /\ UNCHANGED <<tables, rowLocks, history, broker>>

\* Slip: the handler forgets the campaign.
WriteFailed_RunOnly(w) ==
  /\ run' = IF Dirty(w, "run") THEN [run EXCEPT ![RunOf(w)].status = "failed"] ELSE run
  /\ UNCHANGED campaign

\* The handler's UPDATEs, for the rows it does not hold as failed already.
WriteFailed(w) ==
  LET r == RunOf(w) IN
  /\ run' = IF Dirty(w, "run") THEN [run EXCEPT ![r].status = "failed"] ELSE run
  /\ campaign' = IF Dirty(w, "campaign")
                   THEN [campaign EXCEPT ![run[r].campaign].status = "failed"]
                   ELSE campaign

\* The failure is committed and the exception raised again: only an
\* OperationalError is retried.
RecordFailure(w) ==
  /\ At(w, "recording")
  /\ Unlocked(run[RunOf(w)].campaign)
  /\ WriteFailed(w)
  /\ worker' = [worker EXCEPT ![w] = [@ EXCEPT
       !.pc = IF worker[w].error = "db" THEN "retry" ELSE "done",
       !.dirty = {}]]
  /\ UNCHANGED <<rowLocks, history, broker>>

\* OperationalError in the handler itself, which replaces the exception.
RecordFailureFails(w, applied) ==
  /\ Fault("db")
  /\ At(w, "failing") \/ At(w, "recording")
  /\ IF applied
       THEN At(w, "recording") /\ Unlocked(run[RunOf(w)].campaign) /\ WriteFailed(w)
       ELSE UNCHANGED tables
  /\ worker' = [worker EXCEPT ![w] = [@ EXCEPT !.pc = "retry", !.error = "db", !.dirty = {}]]
  /\ UNCHANGED <<rowLocks, dropped, duplicated, broker>>

\* db.refresh(run) after the result was committed, outside the try.
RefreshRun(w) ==
  /\ At(w, "refresh")
  /\ Goto(w, "done")
  /\ UNCHANGED <<tables, rowLocks, history, broker>>

RefreshFails(w) ==
  /\ Fault("db")
  /\ At(w, "refresh")
  /\ Raise(w, "retry", "db")
  /\ UNCHANGED <<tables, rowLocks, dropped, duplicated, broker>>

-----------------------------------------------------------------------------
\* Slip: the delivery is acknowledged and its retry never published.
Retry_NotPublished(w) ==
  /\ At(w, "retry")
  /\ worker[w].msg.retries < MaxRetries
  /\ Goto(w, "done")
  /\ UNCHANGED <<tables, rowLocks, history, broker>>

\* autoretry_for: a copy of the message with one retry more is published, and
\* this delivery acknowledged afterwards.
Retry(w) ==
  LET m == worker[w].msg IN
  /\ At(w, "retry")
  /\ m.retries < MaxRetries
  /\ Publish([m EXCEPT !.retries = @ + 1])
  /\ Goto(w, "done")
  /\ UNCHANGED <<tables, rowLocks, history>>

\* max_retries reached: the exception is final and nobody runs the task again.
RetriesExhausted(w) ==
  /\ At(w, "retry")
  /\ worker[w].msg.retries = MaxRetries
  /\ dropped' = dropped \cup {RunOf(w)}
  /\ Goto(w, "done")
  /\ UNCHANGED <<tables, rowLocks, faults, duplicated, broker>>

\* The retry cannot be published: the message is rejected and lost.
RetryPublishFails(w) ==
  /\ Fault("broker")
  /\ At(w, "retry")
  /\ dropped' = dropped \cup {RunOf(w)}
  /\ Goto(w, "done")
  /\ UNCHANGED <<tables, rowLocks, duplicated, broker>>

\* Slip: the message is put back instead of acknowledged.
Ack_Requeues(w) ==
  /\ At(w, "done")
  /\ Publish(worker[w].msg)
  /\ worker' = [worker EXCEPT ![w] = IdleWorker]
  /\ UNCHANGED <<tables, rowLocks, history>>

\* The task is over: the message is acknowledged.
Ack(w) ==
  /\ At(w, "done")
  /\ worker' = [worker EXCEPT ![w] = IdleWorker]
  /\ UNCHANGED <<tables, rowLocks, history, broker>>

-----------------------------------------------------------------------------
\* The pool process dies or meets the hard time limit, or the soft one strikes
\* outside the try and is raised as RuntimeError, which is not retried: the
\* message is acknowledged although nothing recorded the run's end.
ChildLost(w) ==
  /\ Fault("lost")
  /\ Busy(w) /\ ~At(w, "done")
  /\ dropped' = dropped \cup {RunOf(w)}
  /\ worker' = [worker EXCEPT ![w] = IdleWorker]
  /\ UNCHANGED <<tables, rowLocks, duplicated, broker>>

\* Slip: messages are acknowledged when they are received (no acks_late).
WorkerCrash_EarlyAck(w) ==
  /\ Fault("crash")
  /\ Busy(w)
  /\ worker' = [worker EXCEPT ![w] = IdleWorker]
  /\ UNCHANGED <<tables, rowLocks, dropped, duplicated, broker>>

\* The whole worker dies: the message was not acknowledged and will come back.
\* After "done" it comes back although its retry may be in the queue as well.
WorkerCrash(w) ==
  /\ Fault("crash")
  /\ Busy(w)
  /\ abandoned' = Put(abandoned, worker[w].msg)
  /\ duplicated' = IF At(w, "done") THEN duplicated \cup {RunOf(w)} ELSE duplicated
  /\ worker' = [worker EXCEPT ![w] = IdleWorker]
  /\ UNCHANGED <<tables, rowLocks, dropped, queue>>

\* The broker connection is lost and made again while the task goes on: the
\* message comes back and its present execution cannot acknowledge it any more.
ConnectionLost(w) ==
  /\ Fault("crash")
  /\ Busy(w)
  /\ abandoned' = Put(abandoned, worker[w].msg)
  /\ duplicated' = duplicated \cup {RunOf(w)}
  /\ UNCHANGED <<tables, rowLocks, dropped, queue, worker>>

WorkerStep(w) ==
  \/ StartRun(w)
  \/ Complete(w)
  \/ FetchFails(w)
  \/ LoadFailed(w)
  \/ RecordFailure(w)
  \/ RefreshRun(w)
  \/ Retry(w)
  \/ RetriesExhausted(w)
  \/ Ack(w)

WorkerFault(w) ==
  \/ \E applied \in BOOLEAN : StartFails(w, applied)
  \/ \E error \in {"db", "task"}, applied \in BOOLEAN : CompleteFails(w, error, applied)
  \/ LateTimeLimit(w)
  \/ \E applied \in BOOLEAN : RecordFailureFails(w, applied)
  \/ RefreshFails(w)
  \/ RetryPublishFails(w)
  \/ ChildLost(w)
  \/ WorkerCrash(w)
  \/ ConnectionLost(w)

WorkerNext ==
  \/ \E w \in Workers, m \in Message : WorkerTake(w, m)
  \/ \E w \in Workers : WorkerStep(w) \/ WorkerFault(w)

\* Workers consume while there are messages, and tasks end: their time limit
\* sees to it.
WorkerFairness ==
  \A w \in Workers :
    /\ WF_worker(\E m \in Message : WorkerTake(w, m))
    /\ WF_worker(WorkerStep(w))

(***************************************************************************)
(* The slot will still write an end state for the run, or hand it on.  A   *)
(* handler that found the run failed already writes nothing.               *)
(***************************************************************************)
WorkerCarries(w, r) ==
  /\ RunOf(w) = r
  /\ \/ worker[w].pc \in {"start", "fetch", "failing", "retry"}
     \/ At(w, "recording") /\ (Dirty(w, "run") \/ worker[w].error = "db")
=============================================================================
