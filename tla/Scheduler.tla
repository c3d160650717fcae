------------------------------ MODULE Scheduler ------------------------------
(***************************************************************************)
(* The scheduler process (worker/scheduler.py): it claims due campaigns    *)
(* with CampaignService.claim_due_campaigns, one transaction that locks    *)
(* rows with FOR UPDATE SKIP LOCKED, and then publishes one message for    *)
(* every run it opened.                                                    *)
(***************************************************************************)
EXTENDS Broker

CONSTANTS
  Schedulers,      \* scheduler processes
  Limit,           \* claim_due_campaigns(limit=...)
  LoggingExports   \* the names app/core/logging.py defines

ASSUME LimitAssumption == Limit \in Nat \ {0}

VARIABLE sched     \* what each scheduler process is doing

\* batch: campaigns selected, not yet committed; pending: runs to publish.
Scheduled(pc, batch, pending) == [pc |-> pc, batch |-> batch, pending |-> pending]

SchedInit == sched = [s \in Schedulers |-> Scheduled("down", {}, {})]

SchedTypeOK ==
  sched \in [Schedulers -> [pc : {"down", "idle", "claiming", "dispatching"},
                            batch : SUBSET Campaigns,
                            pending : SUBSET SchedRuns]]

-----------------------------------------------------------------------------
\* The container starts; "from app.core.logging import configure_logging" must
\* find its name, otherwise the process exits before main().
SchedBoot(s) ==
  /\ sched[s].pc = "down"
  /\ "configure_logging" \in LoggingExports
  /\ sched' = [sched EXCEPT ![s] = Scheduled("idle", {}, {})]
  /\ UNCHANGED <<tables, rowLocks, history, broker>>

\* now() passes scheduled_at.
ClockTick(c) ==
  /\ campaign[c].schedule = "future"
  /\ campaign' = [campaign EXCEPT ![c].schedule = "due"]
  /\ UNCHANGED <<run, rowLocks, history, broker, sched>>

\* A definition X_... marked "Slip" is not part of the system: it is X with one
\* plausible mistake, used to show that a property would catch that mistake.

\* Slip: the claim's WHERE clause forgets the status.
Due_AnyStatus(c) == campaign[c].schedule = "due"

Due(c) == campaign[c].status = "draft" /\ campaign[c].schedule = "due"

\* Slip: the claim takes no row locks into account.
Claimable_Locked == {c \in Campaigns : Due(c)}

\* Rows another transaction has locked are skipped, not waited for.
Claimable == {c \in Campaigns : Due(c) /\ Unlocked(c)}

\* SELECT ... WHERE due FOR UPDATE SKIP LOCKED LIMIT limit.
SchedSelect(s, batch) ==
  /\ sched[s].pc = "idle"
  /\ batch # {}
  /\ batch \subseteq Claimable
  /\ Cardinality(batch) = Limit \/ (batch = Claimable /\ Cardinality(batch) < Limit)
  /\ rowLocks' = rowLocks \cup batch
  /\ sched' = [sched EXCEPT ![s] = Scheduled("claiming", batch, {})]
  /\ UNCHANGED <<tables, history, broker>>

\* One fresh run for every campaign of the batch.
Openings(batch) == {f \in [batch -> Fresh(SchedRuns)] :
                      \A c, d \in batch : f[c] = f[d] => c = d}

\* Slip: the runs are inserted and the campaigns left draft.
SchedCommit_LeavesDraft(s, open) ==
  LET batch == sched[s].batch IN
  /\ sched[s].pc = "claiming"
  /\ open \in Openings(batch)
  /\ run' = [r \in Runs |->
       IF \E c \in batch : open[c] = r
         THEN NewRun(CHOOSE c \in batch : open[c] = r)
         ELSE run[r]]
  /\ rowLocks' = rowLocks \ batch
  /\ sched' = [sched EXCEPT ![s] = Scheduled("dispatching", {}, {open[c] : c \in batch})]
  /\ UNCHANGED <<campaign, history, broker>>

\* The commit: every campaign of the batch queued, every run inserted.
SchedCommit(s, open) ==
  LET batch == sched[s].batch IN
  /\ sched[s].pc = "claiming"
  /\ open \in Openings(batch)
  /\ campaign' = [c \in Campaigns |->
       IF c \in batch THEN [campaign[c] EXCEPT !.status = "queued"] ELSE campaign[c]]
  /\ run' = [r \in Runs |->
       IF \E c \in batch : open[c] = r
         THEN NewRun(CHOOSE c \in batch : open[c] = r)
         ELSE run[r]]
  /\ rowLocks' = rowLocks \ batch
  /\ sched' = [sched EXCEPT ![s] = Scheduled("dispatching", {}, {open[c] : c \in batch})]
  /\ UNCHANGED <<history, broker>>

\* The claim fails before its commit: rollback, and main() loops on.
SchedClaimFails(s) ==
  /\ Fault("sched")
  /\ sched[s].pc = "claiming"
  /\ rowLocks' = rowLocks \ sched[s].batch
  /\ sched' = [sched EXCEPT ![s] = Scheduled("idle", {}, {})]
  /\ UNCHANGED <<tables, dropped, duplicated, broker>>

\* Slip: one run of the batch is published and the rest forgotten.
SchedDispatch_OnlyFirst(s, r) ==
  /\ sched[s].pc = "dispatching"
  /\ r \in sched[s].pending
  /\ Publish(FirstDelivery(r))
  /\ sched' = [sched EXCEPT ![s] = Scheduled("idle", {}, {})]
  /\ UNCHANGED <<tables, rowLocks, history>>

\* for run in runs: execute_campaign.delay(run.id).  The claim has no ORDER BY.
SchedDispatch(s, r) ==
  LET rest == sched[s].pending \ {r} IN
  /\ sched[s].pc = "dispatching"
  /\ r \in sched[s].pending
  /\ Publish(FirstDelivery(r))
  /\ sched' = [sched EXCEPT ![s] =
       IF rest = {} THEN Scheduled("idle", {}, {}) ELSE Scheduled("dispatching", {}, rest)]
  /\ UNCHANGED <<tables, rowLocks, history>>

\* One delay() raises: main() logs it and forgets the rest of the batch.
SchedDispatchFails(s) ==
  /\ Fault("sched")
  /\ sched[s].pc = "dispatching"
  /\ dropped' = dropped \cup sched[s].pending
  /\ sched' = [sched EXCEPT ![s] = Scheduled("idle", {}, {})]
  /\ UNCHANGED <<tables, rowLocks, duplicated, broker>>

\* The process dies.  PostgreSQL rolls an open claim back; committed runs that
\* were not published are never picked up again.
SchedCrash(s) ==
  /\ Fault("sched")
  /\ sched[s].pc # "down"
  /\ rowLocks' = rowLocks \ sched[s].batch
  /\ dropped' = dropped \cup sched[s].pending
  /\ sched' = [sched EXCEPT ![s] = Scheduled("down", {}, {})]
  /\ UNCHANGED <<tables, duplicated, broker>>

SchedNext ==
  \/ \E c \in Campaigns : ClockTick(c)
  \/ \E s \in Schedulers :
       \/ SchedBoot(s)
       \/ \E batch \in SUBSET Campaigns : SchedSelect(s, batch)
       \/ \E open \in Openings(sched[s].batch) : SchedCommit(s, open)
       \/ SchedClaimFails(s)
       \/ \E r \in SchedRuns : SchedDispatch(s, r)
       \/ SchedDispatchFails(s)
       \/ SchedCrash(s)

\* main() loops forever, and the container is restarted when it exits.
SchedFairness ==
  \A s \in Schedulers :
    WF_sched(
      \/ SchedBoot(s)
      \/ \E batch \in SUBSET Campaigns : SchedSelect(s, batch)
      \/ \E open \in Openings(sched[s].batch) : SchedCommit(s, open)
      \/ \E r \in SchedRuns : SchedDispatch(s, r))

\* The scheduler still has to publish this run's message.
SchedCarries(s, r) == r \in sched[s].pending
=============================================================================
