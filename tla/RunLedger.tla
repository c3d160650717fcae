------------------------------ MODULE RunLedger ------------------------------
(***************************************************************************)
(* What the two tables promise to whoever reads them, with no processes,   *)
(* messages or locks: the life of campaigns and of their runs.  A run      *)
(* belongs to one campaign for good; it is opened queued, ends only after  *)
(* it was started, and gains findings only in the commit that completes    *)
(* it; starting and completing it writes the campaign in the same commit;  *)
(* a draft leaves its state with a run or by cancellation.                 *)
(*                                                                         *)
(* An ended run may be started again: messages are delivered at least once.*)
(***************************************************************************)
EXTENDS Naturals

CONSTANTS Campaigns, Runs, NoCampaign

VARIABLES campaign, run

ledger == <<campaign, run>>

Exists(c) == campaign[c].status # "none"
Opened(r) == run[r].status # "none"
Started(r) == run[r].status \notin {"none", "queued"}
Due(c) == campaign[c].status = "draft" /\ campaign[c].schedule = "due"

WithFinding(row) ==
  [campaign |-> row.campaign, status |-> "completed", findings |-> row.findings + 1]
Opening(c) == [campaign |-> c, status |-> "queued", findings |-> 0]

Init ==
  /\ campaign = [c \in Campaigns |-> [status |-> "none", schedule |-> "never"]]
  /\ run = [r \in Runs |-> [campaign |-> NoCampaign, status |-> "none", findings |-> 0]]

-----------------------------------------------------------------------------
Create(c, schedule) ==
  /\ ~Exists(c)
  /\ campaign' = [campaign EXCEPT ![c] = [status |-> "draft", schedule |-> schedule]]
  /\ UNCHANGED run

BecomeDue(c) ==
  /\ campaign[c].schedule = "future"
  /\ campaign' = [campaign EXCEPT ![c].schedule = "due"]
  /\ UNCHANGED run

Cancel(c) ==
  /\ Exists(c)
  /\ campaign' = [campaign EXCEPT ![c].status = "cancelled"]
  /\ UNCHANGED run

\* A request opens a run.  Only a campaign that has left "draft" can keep its status.
Execute(c, r) ==
  /\ Exists(c)
  /\ ~Opened(r)
  /\ run' = [run EXCEPT ![r] = Opening(c)]
  /\ \/ campaign' = [campaign EXCEPT ![c].status = "queued"]
     \/ campaign[c].status # "draft" /\ UNCHANGED campaign

\* A scheduler opens one run for each of several due campaigns.
Claim(opened, owner) ==
  /\ \A r \in opened : ~Opened(r) /\ Due(owner[r])
  /\ \A r1, r2 \in opened : owner[r1] = owner[r2] => r1 = r2
  /\ run' = [r \in Runs |-> IF r \in opened THEN Opening(owner[r]) ELSE run[r]]
  /\ campaign' = [c \in Campaigns |->
       IF \E r \in opened : owner[r] = c
         THEN [campaign[c] EXCEPT !.status = "queued"]
         ELSE campaign[c]]

Start(r) ==
  /\ Opened(r)
  /\ run' = [run EXCEPT ![r].status = "running"]
  /\ campaign' = [campaign EXCEPT ![run[r].campaign].status = "running"]

Complete(r) ==
  /\ Started(r)
  /\ run' = [run EXCEPT ![r] = WithFinding(run[r])]
  /\ campaign' = [campaign EXCEPT ![run[r].campaign].status = "completed"]

\* The run, its campaign, or both are marked failed.
Fail(r) ==
  /\ Started(r)
  /\ run' \in {run, [run EXCEPT ![r].status = "failed"]}
  /\ campaign' \in {campaign, [campaign EXCEPT ![run[r].campaign].status = "failed"]}

Next ==
  \/ \E c \in Campaigns :
       \/ \E s \in {"never", "future", "due"} : Create(c, s)
       \/ BecomeDue(c)
       \/ Cancel(c)
       \/ \E r \in Runs : Execute(c, r)
  \/ \E opened \in SUBSET Runs : \E owner \in [opened -> Campaigns] : Claim(opened, owner)
  \/ \E r \in Runs : Start(r) \/ Complete(r) \/ Fail(r)

Spec == Init /\ [][Next]_ledger
=============================================================================
