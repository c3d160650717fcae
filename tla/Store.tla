-------------------------------- MODULE Store --------------------------------
(***************************************************************************)
(* The PostgreSQL tables the control plane shares: campaigns and runs      *)
(* (app/models/campaign.py, app/models/run.py), with the row locks a       *)
(* SELECT ... FOR UPDATE holds between two statements of one transaction.  *)
(*                                                                         *)
(* Every other module reads and writes these tables.  A transaction whose  *)
(* statements nobody can see apart is one step; a transaction that acts on *)
(* a value it read earlier is a read step and a commit step.               *)
(***************************************************************************)
EXTENDS Naturals, FiniteSets

CONSTANTS
  Campaigns,    \* identifiers of the campaigns that may be created
  ApiRuns,      \* identifiers of runs opened by POST /campaigns/{id}/execute
  SchedRuns,    \* identifiers of runs opened by the scheduler
  NoCampaign,   \* "no campaign", an identifier outside Campaigns
  NoRun,        \* "no run", an identifier outside ApiRuns and SchedRuns
  MaxRetries,   \* retry_kwargs["max_retries"] of the Celery task
  Faults,       \* the kinds of fault the environment may inject
  MaxFaults     \* bound on how many faults a behaviour contains

Runs == ApiRuns \cup SchedRuns

FaultKinds == {"api", "sched", "crash", "lost", "db", "time", "broker"}

ASSUME IdAssumption ==
  /\ ApiRuns \cap SchedRuns = {}
  /\ NoRun \notin Runs
  /\ NoCampaign \notin Campaigns

ASSUME BoundAssumption ==
  /\ MaxRetries \in Nat
  /\ MaxFaults \in Nat
  /\ Faults \subseteq FaultKinds

VARIABLES
  campaign,     \* the campaigns table: status and scheduled_at
  run,          \* the runs table: campaign_id, status, number of findings
  rowLocks,     \* campaigns whose row a FOR UPDATE holds
  faults,       \* number of faults so far (history)
  dropped,      \* runs whose last carrier was given up (history)
  duplicated    \* runs whose message was delivered twice (history)

tables == <<campaign, run>>
history == <<faults, dropped, duplicated>>

-----------------------------------------------------------------------------
(* Rows.  "none" is the status of an identifier that has no row yet.        *)

CampaignStatus == {"draft", "queued", "running", "completed", "failed", "cancelled"}
RunStatus == {"queued", "running", "completed", "failed"}

\* scheduled_at: NULL, later than now, or no later than now.
Schedule == {"never", "future", "due"}

CampaignRow == [status : CampaignStatus \cup {"none"}, schedule : Schedule]
RunRow == [campaign : Campaigns \cup {NoCampaign},
           status : RunStatus \cup {"none"},
           findings : Nat]

NewRun(c) == [campaign |-> c, status |-> "queued", findings |-> 0]

Fresh(ids) == {r \in ids : run[r].status = "none"}

StoreInit ==
  /\ campaign = [c \in Campaigns |-> [status |-> "none", schedule |-> "never"]]
  /\ run = [r \in Runs |-> [campaign |-> NoCampaign, status |-> "none", findings |-> 0]]
  /\ rowLocks = {}
  /\ faults = 0
  /\ dropped = {}
  /\ duplicated = {}

StoreTypeOK ==
  /\ campaign \in [Campaigns -> CampaignRow]
  /\ run \in [Runs -> RunRow]
  /\ rowLocks \subseteq Campaigns
  /\ faults \in Nat
  /\ dropped \subseteq Runs
  /\ duplicated \subseteq Runs

-----------------------------------------------------------------------------
(* Writes.                                                                  *)

\* One commit that gives a run and its campaign the same status.
MarkBoth(r, s) ==
  /\ run' = [run EXCEPT ![r].status = s]
  /\ campaign' = [campaign EXCEPT ![run[r].campaign].status = s]

WithFinding(row) ==
  [campaign |-> row.campaign, status |-> "completed", findings |-> row.findings + 1]

\* The commit of a successful execution: the statuses and one more finding.
MarkCompleted(r) ==
  /\ run' = [run EXCEPT ![r] = WithFinding(run[r])]
  /\ campaign' = [campaign EXCEPT ![run[r].campaign].status = "completed"]

\* A write to a locked row waits until the lock is released.
Unlocked(c) == c \notin rowLocks

\* The environment injects one fault of this kind.
Fault(kind) ==
  /\ kind \in Faults
  /\ faults < MaxFaults
  /\ faults' = faults + 1
=============================================================================
