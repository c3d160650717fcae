---------------------------- MODULE FailureStreak -----------------------------
(***************************************************************************)
(* What a circuit breaker promises, without a state machine: it counts the *)
(* failures since the last success and keeps the time since the latest     *)
(* one.  A call is let through unless the streak has reached the threshold *)
(* and the recovery timeout has not passed since its latest failure.       *)
(***************************************************************************)
EXTENDS Naturals

CONSTANTS Dependencies, Threads, FailureThreshold, RecoveryTimeout

VARIABLES
  streak,   \* failures since the last success, counted up to the threshold
  quiet,    \* time since the latest failure of a full streak, up to the timeout
  verdict   \* of each thread: "none", "admitted" or "refused"

vars == <<streak, quiet, verdict>>

Full(d) == streak[d] = FailureThreshold
CoolingDown(d) == Full(d) /\ quiet[d] < RecoveryTimeout

Init ==
  /\ streak = [d \in Dependencies |-> 0]
  /\ quiet = [d \in Dependencies |-> 0]
  /\ verdict = [t \in Threads |-> "none"]

Ask(t, d) ==
  /\ verdict[t] = "none"
  /\ verdict' = [verdict EXCEPT ![t] = IF CoolingDown(d) THEN "refused" ELSE "admitted"]
  /\ UNCHANGED <<streak, quiet>>

Succeed(t, d) ==
  /\ verdict[t] = "admitted"
  /\ verdict' = [verdict EXCEPT ![t] = "none"]
  /\ streak' = [streak EXCEPT ![d] = 0]
  /\ quiet' = [quiet EXCEPT ![d] = 0]

Fail(t, d) ==
  /\ verdict[t] = "admitted"
  /\ verdict' = [verdict EXCEPT ![t] = "none"]
  /\ streak' = [streak EXCEPT ![d] = IF Full(d) THEN @ ELSE @ + 1]
  /\ quiet' = [quiet EXCEPT ![d] = 0]

Leave(t) ==
  /\ verdict[t] = "refused"
  /\ verdict' = [verdict EXCEPT ![t] = "none"]
  /\ UNCHANGED <<streak, quiet>>

Wait ==
  /\ quiet' = [d \in Dependencies |->
                 IF CoolingDown(d) THEN quiet[d] + 1 ELSE quiet[d]]
  /\ UNCHANGED <<streak, verdict>>

Next ==
  \/ Wait
  \/ \E t \in Threads :
       \/ Leave(t)
       \/ \E d \in Dependencies : Ask(t, d) \/ Succeed(t, d) \/ Fail(t, d)

Spec == Init /\ [][Next]_vars
=============================================================================
