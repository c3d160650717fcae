----------------------------- MODULE CampaignApi -----------------------------
(***************************************************************************)
(* The campaign endpoints (app/api/v1/campaigns.py) on top of              *)
(* CampaignService (app/services/campaign_service.py).  A request loads    *)
(* the campaign without a lock, decides on the status it loaded, and       *)
(* commits; POST .../execute publishes the task after its commit.          *)
(* Reads (list, get) change nothing and are left out.                      *)
(***************************************************************************)
EXTENDS Broker

CONSTANT Requests   \* the requests the API serves at the same time

VARIABLE api        \* what each request is doing

IdleRequest == [pc |-> "idle", op |-> "none", campaign |-> NoCampaign,
                seen |-> "none", run |-> NoRun]

ApiInit == api = [q \in Requests |-> IdleRequest]

ApiTypeOK ==
  api \in [Requests -> [pc : {"idle", "loaded", "publish"},
                        op : {"none", "cancel", "execute"},
                        campaign : Campaigns \cup {NoCampaign},
                        seen : CampaignStatus \cup {"none"},
                        run : ApiRuns \cup {NoRun}]]

Executing(q) == api[q].pc = "loaded" /\ api[q].op = "execute"

-----------------------------------------------------------------------------
\* POST /campaigns: one INSERT.  Attestation and target were checked before.
CreateCampaign(c, schedule) ==
  /\ campaign[c].status = "none"
  /\ campaign' = [campaign EXCEPT ![c] = [status |-> "draft", schedule |-> schedule]]
  /\ UNCHANGED <<run, rowLocks, history, broker, api>>

\* get_campaign: the row is read without a lock.  The bound on executions is
\* the number of identifiers in ApiRuns.
ApiLoad(q, c, op) ==
  /\ api[q].pc = "idle"
  /\ campaign[c].status # "none"
  /\ op = "execute" =>
       Cardinality({p \in Requests : Executing(p)}) < Cardinality(Fresh(ApiRuns))
  /\ api' = [api EXCEPT ![q] = [pc |-> "loaded", op |-> op, campaign |-> c,
                                seen |-> campaign[c].status, run |-> NoRun]]
  /\ UNCHANGED <<tables, rowLocks, history, broker>>

\* A definition X_... marked "Slip" is not part of the system: it is X with one
\* plausible mistake, used to show that a property would catch that mistake.

\* Slip: create_run forgets that a cancelled campaign cannot execute.
Accepts_CancelledToo(op, seen) ==
  CASE op = "cancel"  -> seen \notin {"completed", "failed", "cancelled", "running"}
    [] op = "execute" -> seen # "running"

\* The guards of cancel_campaign and create_run, on the status that was loaded.
Accepts(op, seen) ==
  CASE op = "cancel"  -> seen \notin {"completed", "failed", "cancelled", "running"}
    [] op = "execute" -> seen \notin {"running", "cancelled"}

\* ValueError from the service, answered with 409.
ApiReject(q) ==
  /\ api[q].pc = "loaded"
  /\ ~Accepts(api[q].op, api[q].seen)
  /\ api' = [api EXCEPT ![q] = IdleRequest]
  /\ UNCHANGED <<tables, rowLocks, history, broker>>

\* cancel_campaign: the UPDATE overwrites whatever the row holds by now.
ApiCancel(q) ==
  /\ api[q].pc = "loaded"
  /\ api[q].op = "cancel"
  /\ Accepts("cancel", api[q].seen)
  /\ Unlocked(api[q].campaign)
  /\ campaign' = [campaign EXCEPT ![api[q].campaign].status = "cancelled"]
  /\ api' = [api EXCEPT ![q] = IdleRequest]
  /\ UNCHANGED <<run, rowLocks, history, broker>>

\* The row after "campaign.status = queued": SQLAlchemy emits no UPDATE for a
\* column set to the value that was loaded.
QueuedFrom(seen, status) == IF seen = "queued" THEN status ELSE "queued"

\* create_run: insert the run, queue the campaign, commit.
ApiExecute(q, r) ==
  LET c == api[q].campaign IN
  /\ Executing(q)
  /\ Accepts("execute", api[q].seen)
  /\ Unlocked(c)
  /\ r \in Fresh(ApiRuns)
  /\ run' = [run EXCEPT ![r] = NewRun(c)]
  /\ campaign' = [campaign EXCEPT ![c].status = QueuedFrom(api[q].seen, @)]
  /\ api' = [api EXCEPT ![q] = [@ EXCEPT !.pc = "publish", !.run = r]]
  /\ UNCHANGED <<rowLocks, history, broker>>

\* execute_campaign.delay, after the commit; then the 202 response.
ApiPublish(q) ==
  /\ api[q].pc = "publish"
  /\ Publish(FirstDelivery(api[q].run))
  /\ api' = [api EXCEPT ![q] = IdleRequest]
  /\ UNCHANGED <<tables, rowLocks, history>>

\* The request ends early: the process dies, the commit or the refresh fails,
\* or the broker refuses the message.  A run already committed stays behind.
ApiFails(q) ==
  /\ Fault("api")
  /\ api[q].pc # "idle"
  /\ dropped' = IF api[q].pc = "publish" THEN dropped \cup {api[q].run} ELSE dropped
  /\ api' = [api EXCEPT ![q] = IdleRequest]
  /\ UNCHANGED <<tables, rowLocks, duplicated, broker>>

ApiNext ==
  \/ \E c \in Campaigns, s \in Schedule : CreateCampaign(c, s)
  \/ \E q \in Requests :
       \/ \E c \in Campaigns, op \in {"cancel", "execute"} : ApiLoad(q, c, op)
       \/ ApiReject(q)
       \/ ApiCancel(q)
       \/ \E r \in ApiRuns : ApiExecute(q, r)
       \/ ApiPublish(q)
       \/ ApiFails(q)

\* A request the API has accepted is served to its end.
ApiFairness ==
  \A q \in Requests :
    WF_api(
      ApiReject(q) \/ ApiCancel(q) \/ (\E r \in ApiRuns : ApiExecute(q, r)) \/ ApiPublish(q))

\* The request still has to publish this run's message.
ApiCarries(q, r) == api[q].pc = "publish" /\ api[q].run = r
=============================================================================
