---------------------------- MODULE CircuitBreaker ----------------------------
(***************************************************************************)
(* app/core/circuit_breaker.py: one breaker per dependency, shared by the  *)
(* threads that serve requests.  `call` holds the lock twice, to look at   *)
(* the state and to record the result; the guarded function runs between   *)
(* the two, so results arrive in any order and long after admission.       *)
(***************************************************************************)
EXTENDS Naturals

CONSTANTS
  Dependencies,      \* what is guarded, one CircuitBreaker each
  Threads,           \* the threads that call
  FailureThreshold,  \* failure_threshold
  RecoveryTimeout,   \* recovery_timeout, in ticks of the monotonic clock
  NotOpened          \* _opened_at is None

\* The constructor's ValueErrors.
ASSUME BreakerAssumption ==
  /\ FailureThreshold \in Nat \ {0}
  /\ RecoveryTimeout \in Nat \ {0}
  /\ NotOpened \notin Nat

VARIABLES
  breaker,      \* the three attributes of each breaker
  call          \* where each thread stands in `call`, and of which breaker

-----------------------------------------------------------------------------
(* The attributes.  _opened_at is kept as the time since then, which the    *)
(* code compares with recovery_timeout only: older than that is all the     *)
(* same.  _failure_count likewise counts no further than the threshold.     *)

CircuitState == {"closed", "open", "half_open"}

Breaker == [state : CircuitState,
            failures : 0..FailureThreshold,
            openFor : 0..RecoveryTimeout \cup {NotOpened}]

Fresh == [state |-> "closed", failures |-> 0, openFor |-> NotOpened]

Upto(n, top) == IF n > top THEN top ELSE n

\* _current_state: looking at an open circuit may change it.
CurrentState(b) ==
  IF b.state = "open" /\ b.openFor # NotOpened /\ b.openFor >= RecoveryTimeout
  THEN [b EXCEPT !.state = "half_open"]
  ELSE b

\* Slip: the opening time survives a success.
AfterSuccess_KeepsTime(b) == [Fresh EXCEPT !.openFor = b.openFor]

\* record_success forgets whatever was there.
AfterSuccess(b) == Fresh

OpenWith(n) == [state |-> "open", failures |-> n, openFor |-> 0]

\* Slip: a failed trial reopens the circuit under its old opening time.
AfterFailure_OldTime(b) ==
  LET n == Upto(b.failures + 1, FailureThreshold)
  IN IF b.state = "half_open" THEN [b EXCEPT !.state = "open"]
     ELSE IF n >= FailureThreshold THEN OpenWith(n)
     ELSE [b EXCEPT !.failures = n]

\* record_failure looks at _state as it was left, not at _current_state.
AfterFailure(b) ==
  LET n == Upto(b.failures + 1, FailureThreshold)
  IN IF b.state = "half_open" THEN OpenWith(b.failures)
     ELSE IF n >= FailureThreshold THEN OpenWith(n)
     ELSE [b EXCEPT !.failures = n]

Aged(b) ==
  IF b.openFor = NotOpened THEN b
  ELSE [b EXCEPT !.openFor = Upto(@ + 1, RecoveryTimeout)]

-----------------------------------------------------------------------------
(* The steps of `call`, and the reads of `state`.                           *)

\* out: not in a call.  inside: the function runs.  returned, raised: it ended
\* and the result is not recorded yet.  ok, failed, refused: how `call` ended,
\* until the caller has seen it.
CallPc == {"out", "inside", "returned", "raised", "ok", "failed", "refused"}

Ended == {"ok", "failed", "refused"}

BreakerInit ==
  /\ breaker = [d \in Dependencies |-> Fresh]
  /\ call = [t \in Threads |-> "out"]

\* Slip: a half-open circuit refuses, too.
Admit_OnlyClosed(t, d) ==
  /\ call[t] = "out"
  /\ breaker' = [breaker EXCEPT ![d] = CurrentState(@)]
  /\ call' = [call EXCEPT ![t] = IF breaker'[d].state # "closed" THEN "refused" ELSE "inside"]

\* The first lock section: look, then run the function or raise CircuitOpenError.
Admit(t, d) ==
  /\ call[t] = "out"
  /\ breaker' = [breaker EXCEPT ![d] = CurrentState(@)]
  /\ call' = [call EXCEPT ![t] = IF breaker'[d].state = "open" THEN "refused" ELSE "inside"]

\* The function returns.
Return(t) ==
  /\ call[t] = "inside"
  /\ call' = [call EXCEPT ![t] = "returned"]
  /\ UNCHANGED breaker

\* The function raises.
Raise(t) ==
  /\ call[t] = "inside"
  /\ call' = [call EXCEPT ![t] = "raised"]
  /\ UNCHANGED breaker

\* The second lock section.
RecordSuccess(t, d) ==
  /\ call[t] = "returned"
  /\ breaker' = [breaker EXCEPT ![d] = AfterSuccess(@)]
  /\ call' = [call EXCEPT ![t] = "ok"]

RecordFailure(t, d) ==
  /\ call[t] = "raised"
  /\ breaker' = [breaker EXCEPT ![d] = AfterFailure(@)]
  /\ call' = [call EXCEPT ![t] = "failed"]

\* The property `state`, a lock section of its own that the caller enters once
\* the call has ended.
ReadState(t, d) ==
  /\ call[t] \in Ended
  /\ breaker' = [breaker EXCEPT ![d] = CurrentState(@)]
  /\ call' = [call EXCEPT ![t] = "out"]

\* time.monotonic() goes on, for every breaker at once.
Tick ==
  /\ breaker' = [d \in Dependencies |-> Aged(breaker[d])]
  /\ UNCHANGED call

-----------------------------------------------------------------------------

BreakerTypeOK ==
  /\ breaker \in [Dependencies -> Breaker]
  /\ call \in [Threads -> CallPc]

\* What a lock section leaves behind: closed exactly below the threshold and exactly
\* when no opening time is kept, half-open only after the whole recovery timeout.
Agree(b) ==
  /\ b.state = "closed" <=> b.failures < FailureThreshold
  /\ b.state = "closed" <=> b.openFor = NotOpened
  /\ b.state = "half_open" => b.openFor = RecoveryTimeout

\* The three attributes of a breaker never contradict each other, whatever results
\* arrive in whatever order and however late (circuit_breaker.py:57-72).
AttributesAgree == \A d \in Dependencies : Agree(breaker[d])
=============================================================================
