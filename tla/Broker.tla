------------------------------- MODULE Broker -------------------------------
(***************************************************************************)
(* The Celery queue of hcvf.execute_campaign messages on Redis, from how   *)
(* worker/celery_app.py configures it: late acknowledgement, one message   *)
(* prefetched, default redelivery of what a consumer never acknowledged.   *)
(* The broker is not part of the repository.                               *)
(*                                                                         *)
(* Both variables are bags: two retries of the same message are equal      *)
(* records and yet two messages.  A message a worker is executing is in    *)
(* that worker's record (module Worker), not here.                         *)
(***************************************************************************)
EXTENDS Store

VARIABLES
  queue,        \* messages ready for delivery
  abandoned     \* delivered, not acknowledged, and their consumer is gone

broker == <<queue, abandoned>>

Message == [run : Runs, retries : 0..MaxRetries]
NoMessage == [run |-> NoRun, retries |-> 0]

\* execute_campaign.delay(run_id)
FirstDelivery(r) == [run |-> r, retries |-> 0]

BrokerInit ==
  /\ queue = [m \in Message |-> 0]
  /\ abandoned = [m \in Message |-> 0]

BrokerTypeOK ==
  /\ queue \in [Message -> Nat]
  /\ abandoned \in [Message -> Nat]

Put(bag, m) == [bag EXCEPT ![m] = @ + 1]
Remove(bag, m) == [bag EXCEPT ![m] = @ - 1]

Publish(m) ==
  /\ queue' = Put(queue, m)
  /\ UNCHANGED abandoned

\* The visibility timeout returns an unacknowledged message to the queue.
Redeliver(m) ==
  /\ abandoned[m] > 0
  /\ abandoned' = Remove(abandoned, m)
  /\ queue' = Put(queue, m)
  /\ UNCHANGED <<tables, rowLocks, history>>

BrokerNext == \E m \in Message : Redeliver(m)

\* The broker returns what was not acknowledged.
BrokerFairness == \A m \in Message : WF_broker(Redeliver(m))

\* A message for this run is in the broker's hands.
InBroker(r) == \E m \in Message : m.run = r /\ queue[m] + abandoned[m] > 0
=============================================================================
