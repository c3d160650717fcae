----------------------------- MODULE ControlPlane -----------------------------
(***************************************************************************)
(* The control plane: API requests, schedulers and workers over one        *)
(* database and one queue, with what the whole must guarantee.             *)
(***************************************************************************)
EXTENDS CampaignApi, Scheduler, Worker

vars == <<tables, rowLocks, history, broker, api, sched, worker>>

Init ==
  /\ StoreInit
  /\ BrokerInit
  /\ ApiInit
  /\ SchedInit
  /\ WorkerInit

Next ==
  \/ ApiNext /\ UNCHANGED <<sched, worker>>
  \/ SchedNext /\ UNCHANGED <<api, worker>>
  \/ WorkerNext /\ UNCHANGED <<api, sched>>
  \/ BrokerNext /\ UNCHANGED <<api, sched, worker>>

Spec == Init /\ [][Next]_vars

Fairness == ApiFairness /\ SchedFairness /\ WorkerFairness /\ BrokerFairness

FairSpec == Spec /\ Fairness

-----------------------------------------------------------------------------
(* Invariants.                                                              *)

\* Every variable has its type.
TypeOK ==
  /\ StoreTypeOK
  /\ BrokerTypeOK
  /\ ApiTypeOK
  /\ SchedTypeOK
  /\ WorkerTypeOK

\* Somebody still has to publish, deliver, execute or retry this run.
Carried(r) ==
  \/ \E q \in Requests : ApiCarries(q, r)
  \/ \E s \in Schedulers : SchedCarries(s, r)
  \/ InBroker(r)
  \/ \E w \in Workers : WorkerCarries(w, r)

\* A run that has not ended is always in somebody's hands, unless one of the
\* faults that nothing in the code makes good gave up its last carrier: the gap
\* between commit and publish, a batch cut short, a lost child, a retry that
\* could not be published or was one too many.
UnfinishedRunHasCarrier ==
  \A r \in Runs : run[r].status \in {"queued", "running"} => Carried(r) \/ r \in dropped

\* Row locks and SKIP LOCKED: no two schedulers open a run for one campaign,
\* or hold it in their claims at the same time.
ClaimedOnce ==
  /\ \A r1, r2 \in SchedRuns :
       /\ run[r1].status # "none"
       /\ run[r2].status # "none"
       /\ run[r1].campaign = run[r2].campaign
       => r1 = r2
  /\ \A s1, s2 \in Schedulers : s1 # s2 => sched[s1].batch \cap sched[s2].batch = {}

\* The two status columns agree: what a campaign says of its execution is what
\* one of its runs says, except for a run that is delivered twice (there one
\* failure handler can miss what the other execution wrote since it read).
StatusWitnessed ==
  \A c \in Campaigns :
    campaign[c].status \in RunStatus =>
      \E r \in Runs : /\ run[r].campaign = c
                      /\ run[r].status = campaign[c].status \/ r \in duplicated

\* Late acknowledgement makes a task run again: every finding of a run beyond
\* its first costs a fault, whatever the interleaving.
FindingsBoundedByFaults == \A r \in Runs : run[r].findings <= 1 + faults

-----------------------------------------------------------------------------
(* The strengthening that makes the invariants inductive: what an actor     *)
(* remembers is still true of the tables when it acts on it.                *)

Opened(r) == run[r].status # "none"
Started(r) == run[r].status \notin {"none", "queued"}
Ended(r) == run[r].status \in {"completed", "failed"}

\* The campaign exists and is no draft any more; it never will be again.
Left(c) == campaign[c].status \notin {"none", "draft"}

\* A run belongs to a campaign that has left the drafts.
RunsHaveCampaigns ==
  \A r \in Runs : Opened(r) => run[r].campaign \in Campaigns /\ Left(run[r].campaign)

\* A loaded campaign exists, and one seen queued is no draft; a run waiting to
\* be published was committed.
RequestsHoldRows ==
  \A q \in Requests :
    /\ api[q].pc = "loaded" =>
         /\ api[q].op \in {"cancel", "execute"}
         /\ api[q].campaign \in Campaigns
         /\ campaign[api[q].campaign].status # "none"
         /\ api[q].seen = "queued" => Left(api[q].campaign)
    /\ api[q].pc = "publish" => api[q].run \in ApiRuns /\ Opened(api[q].run)

\* A claimed batch is locked and still due, no two batches meet, and pending
\* runs were committed.
ClaimsHold ==
  /\ \A s \in Schedulers :
       /\ sched[s].pc # "claiming" => sched[s].batch = {}
       /\ sched[s].pc # "dispatching" => sched[s].pending = {}
       /\ \A c \in sched[s].batch : Due(c) /\ ~Unlocked(c)
       /\ \A r \in sched[s].pending : Opened(r)
  /\ \A s1, s2 \in Schedulers : s1 # s2 => sched[s1].batch \cap sched[s2].batch = {}

\* Messages, waiting or being executed, are about runs that were committed, and
\* a run whose target is being fetched or whose failure is handled was started.
MessagesHoldRuns ==
  /\ \A m \in Message : queue[m] + abandoned[m] > 0 => Opened(m.run)
  /\ \A w \in Workers :
       /\ Busy(w) => worker[w].msg \in Message /\ Opened(RunOf(w))
       /\ worker[w].pc \in {"fetch", "failing", "recording"} => Started(RunOf(w))

IndInv ==
  /\ TypeOK
  /\ RunsHaveCampaigns
  /\ RequestsHoldRows
  /\ ClaimsHold
  /\ MessagesHoldRuns
  /\ UnfinishedRunHasCarrier
  /\ ClaimedOnce

-----------------------------------------------------------------------------
(* The account of carriers that makes the last two invariants inductive.    *)

\* The copies of messages about this run in one of the broker's bags.
Copies(bag, r) == UNION {{<<m, i>> : i \in 1..bag[m]} : m \in {n \in Message : n.run = r}}

\* All that may still act on the run: copies of its message, workers at one of
\* these steps, and requests and schedulers about to publish it.
Carriers(r, steps) ==
  ({"queue"} \X Copies(queue, r))
    \cup ({"abandoned"} \X Copies(abandoned, r))
    \cup ({"worker"} \X {w \in Workers : RunOf(w) = r /\ worker[w].pc \in steps})
    \cup ({"request"} \X {q \in Requests : ApiCarries(q, r)})
    \cup ({"scheduler"} \X {s \in Schedulers : SchedCarries(s, r)})

\* Up to its acknowledgement a delivery may act on the run, ...
Acting == {"start", "fetch", "failing", "recording", "refresh", "retry"}

\* ... and after its result is committed it writes no finding.
Unpaid == Acting \ {"refresh"}

\* Late acknowledgement: a run is in one hand at a time, unless its message was
\* delivered twice.
OneCarrier ==
  \A r \in Runs \ duplicated : \A x, y \in Carriers(r, Acting) : x = y

\* Every finding, written or still to come, is the first of its run or is paid
\* for by a fault.
FindingsPaid ==
  \A r \in Runs :
    /\ IsFiniteSet(Carriers(r, Unpaid))
    /\ run[r].findings + Cardinality(Carriers(r, Unpaid)) <= 1 + faults

\* While the target is fetched the run is running, and the handler knows whether
\* its run is failed, also where it did not read the row again.
HandlersKnow ==
  \A w \in Workers :
    RunOf(w) \notin duplicated =>
      /\ At(w, "fetch") => run[RunOf(w)].status = "running"
      /\ At(w, "recording") => (Dirty(w, "run") <=> run[RunOf(w)].status # "failed")

\* The run's status is the campaign's, and will be after a handler that leaves
\* the campaign alone has written the run.
Witnesses(r, c) ==
  /\ Opened(r)
  /\ run[r].campaign = c
  /\ \/ r \in duplicated
     \/ /\ run[r].status = campaign[c].status
        /\ \A w \in Workers :
             At(w, "recording") /\ RunOf(w) = r /\ ~Dirty(w, "campaign") =>
               campaign[c].status = "failed"

WitnessStays ==
  \A c \in Campaigns :
    campaign[c].status \in RunStatus => \E r \in Runs : Witnesses(r, c)

\* Before the first fault nothing is delivered twice or tried again, and whoever
\* ended a run was the last to act on it.
EndedAtRest ==
  faults = 0 =>
    /\ duplicated = {}
    /\ \A w \in Workers : worker[w].error # "db"
    /\ \A r \in Runs : Ended(r) => Carriers(r, Unpaid) = {}

CarrierInv == OneCarrier /\ FindingsPaid /\ HandlersKnow /\ WitnessStays /\ EndedAtRest

-----------------------------------------------------------------------------
(* Action properties.                                                       *)

\* Something that can still change this campaign's status is on its way: a run
\* in somebody's hands, or a request that loaded the campaign before.
InFlight(c) ==
  \/ \E r \in Runs : run[r].campaign = c /\ (Carried(r) \/ \E w \in Workers : RunOf(w) = r)
  \/ \E q \in Requests : api[q].pc = "loaded" /\ api[q].campaign = c /\ api[q].seen # "cancelled"

\* cancel_campaign is final once nothing that started earlier is on its way: no
\* later request and no scheduler brings the campaign back.
CancelIsFinal ==
  [][\A c \in Campaigns :
       campaign[c].status = "cancelled" /\ ~InFlight(c) => campaign'[c].status = "cancelled"]_vars

\* StartRun does not look at the run's status.  Yet a run that has ended is not
\* touched again before a fault, and a run with a result only after as many faults
\* as it has findings.
EndedIsFinal ==
  [][\A r \in Runs :
       Ended(r) /\ run'[r] # run[r] => faults > 0 /\ run[r].findings <= faults]_vars

\* "Cancelled campaign cannot execute" (campaign_service.py:115).
CancelledNeverStarts ==
  [][\A c \in Campaigns :
       campaign[c].status = "cancelled" => campaign'[c].status # "running"]_vars

-----------------------------------------------------------------------------
(* Refinement.                                                              *)

Ledger == INSTANCE RunLedger

\* However requests, schedulers, deliveries and faults interleave, the tables
\* go through the life of campaigns and runs that RunLedger promises.
RefinesLedger == Ledger!Spec

-----------------------------------------------------------------------------
(* Liveness.                                                                *)

\* Every run that was opened comes to an end.
RunsEnd ==
  \A r \in Runs :
    run[r].status \in {"queued", "running"} ~> run[r].status \in {"completed", "failed"}

\* "Scheduler loop for due campaigns" (README.md:17): a due draft does not
\* stay a draft.
DueIsClaimed == \A c \in Campaigns : Due(c) ~> ~Due(c)
=============================================================================
