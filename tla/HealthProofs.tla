----------------------------- MODULE HealthProofs -----------------------------
(***************************************************************************)
(* Proofs about Health, for every number of threads, every threshold and   *)
(* every recovery timeout.                                                 *)
(***************************************************************************)
EXTENDS Health, TLAPS

-----------------------------------------------------------------------------
(* What each lock section does to the attributes of one breaker.            *)

LEMMA FreshAgrees == Fresh \in Breaker /\ Agree(Fresh)
BY BreakerAssumption DEF Fresh, Breaker, CircuitState, Agree

\* Looking at the state never moves the count or the opening time, and finds the
\* circuit open exactly while a full streak cools down.
LEMMA CurrentStateAgrees ==
  ASSUME NEW b \in Breaker, Agree(b)
  PROVE  /\ CurrentState(b) \in Breaker
         /\ Agree(CurrentState(b))
         /\ CurrentState(b).failures = b.failures
         /\ CurrentState(b).openFor = b.openFor
         /\ CurrentState(b).state = "open" <=>
              b.failures = FailureThreshold /\ Quiet(b) < RecoveryTimeout
BY BreakerAssumption DEF CurrentState, Breaker, CircuitState, Agree, Quiet

\* A success forgets everything.
LEMMA AfterSuccessAgrees ==
  ASSUME NEW b \in Breaker, Agree(b)
  PROVE  /\ AfterSuccess(b) \in Breaker
         /\ Agree(AfterSuccess(b))
         /\ AfterSuccess(b).failures = 0
         /\ Quiet(AfterSuccess(b)) = 0
BY FreshAgrees DEF AfterSuccess, Fresh, Quiet

\* A failure counts, and starts the recovery timeout anew once the streak is full,
\* in each of the three states.
LEMMA AfterFailureAgrees ==
  ASSUME NEW b \in Breaker, Agree(b)
  PROVE  /\ AfterFailure(b) \in Breaker
         /\ Agree(AfterFailure(b))
         /\ AfterFailure(b).failures =
              IF b.failures = FailureThreshold THEN b.failures ELSE b.failures + 1
         /\ Quiet(AfterFailure(b)) = 0
<1>1. CASE b.state = "half_open"
  BY <1>1, BreakerAssumption DEF AfterFailure, OpenWith, Breaker, CircuitState, Agree, Quiet
<1>2. CASE b.state # "half_open" /\ b.failures + 1 >= FailureThreshold
  BY <1>2, BreakerAssumption
  DEF AfterFailure, OpenWith, Upto, Breaker, CircuitState, Agree, Quiet
<1>3. CASE b.state # "half_open" /\ b.failures + 1 < FailureThreshold
  BY <1>3, BreakerAssumption
  DEF AfterFailure, Upto, Breaker, CircuitState, Agree, Quiet
<1>4. QED
  BY <1>1, <1>2, <1>3, BreakerAssumption DEF Breaker

\* Time only matters to a full streak, and only up to the timeout.
LEMMA AgedAgrees ==
  ASSUME NEW b \in Breaker, Agree(b)
  PROVE  /\ Aged(b) \in Breaker
         /\ Agree(Aged(b))
         /\ Aged(b).failures = b.failures
         /\ Quiet(Aged(b)) =
              IF b.failures = FailureThreshold /\ Quiet(b) < RecoveryTimeout
              THEN Quiet(b) + 1 ELSE Quiet(b)
BY BreakerAssumption DEF Aged, Upto, Breaker, CircuitState, Agree, Quiet

-----------------------------------------------------------------------------
(* The inductive invariant.                                                 *)

LEMMA InitIndInv == Init => IndInv
BY FreshAgrees, DependencyAssumption
DEF Init, BreakerInit, IndInv, TypeOK, BreakerTypeOK, CallPc, AttributesAgree, AnswersKept

\* Whatever a step does to the breakers, each is left well typed and consistent.
LEMMA BreakersStayWell ==
  ASSUME breaker \in [Dependencies -> Breaker], AttributesAgree, [Next]_vars
  PROVE  breaker' \in [Dependencies -> Breaker] /\ AttributesAgree'
<1> DEFINE Well(b) == b \in Breaker /\ Agree(b)
<1>1. \A d \in Dependencies :
        /\ Well(breaker[d])
        /\ Well(CurrentState(breaker[d]))
        /\ Well(AfterSuccess(breaker[d]))
        /\ Well(AfterFailure(breaker[d]))
        /\ Well(Aged(breaker[d]))
  BY CurrentStateAgrees, AfterSuccessAgrees, AfterFailureAgrees, AgedAgrees DEF AttributesAgree
<1> SUFFICES breaker' \in [Dependencies -> Breaker] /\ \A d \in Dependencies : Well(breaker'[d])
  BY DEF AttributesAgree
<1> HIDE DEF Well
<1> USE <1>1
<1>2. CASE Clock
  BY <1>2 DEF Clock, Tick, Well
<1>3. ASSUME NEW t \in Threads, Ask(t) \/ Record(t) \/ Report(t)
      PROVE  breaker' \in [Dependencies -> Breaker] /\ \A d \in Dependencies : Well(breaker'[d])
  BY <1>3 DEF Ask, Admit, Record, RecordSuccess, RecordFailure, Report, ReadState, Well
<1>4. CASE UNCHANGED breaker
  BY <1>4
<1>5. QED
  BY <1>2, <1>3, <1>4 DEF Next, Toggle, Begin, CheckAnswers, CheckRaises, Return, Raise, vars

LEMMA NextTypeOK ==
  ASSUME TypeOK, AttributesAgree, [Next]_vars
  PROVE  TypeOK'
<1>1. breaker' \in [Dependencies -> Breaker]
  BY BreakersStayWell DEF TypeOK, BreakerTypeOK
<1> DEFINE Rest == /\ call \in [Threads -> CallPc]
                   /\ up \in [Dependencies -> BOOLEAN]
                   /\ at \in [Threads -> Dependencies \cup {"idle"}]
                   /\ status \in [Threads -> [Dependencies -> {"ok", "down"}]]
                   /\ answered \in [Threads -> SUBSET Dependencies]
                   /\ \A t \in Threads : at[t] = "idle" => call[t] = "out"
<1> SUFFICES Rest'
  BY <1>1 DEF TypeOK, BreakerTypeOK
<1> Rest
  BY DEF TypeOK, BreakerTypeOK
<1>2. CASE Clock
  BY <1>2 DEF Clock, Tick
<1>3. ASSUME NEW d \in Dependencies, Toggle(d) PROVE Rest'
  BY <1>3 DEF Toggle
<1>4. ASSUME NEW t \in Threads, Begin(t) PROVE Rest'
  BY <1>4, DependencyAssumption DEF Begin
<1>5. ASSUME NEW t \in Threads, Ask(t) PROVE Rest'
  BY <1>5 DEF Ask, Admit, CallPc
<1>6. ASSUME NEW t \in Threads, CheckAnswers(t) PROVE Rest'
  BY <1>6 DEF CheckAnswers, Return, CallPc
<1>7. ASSUME NEW t \in Threads, CheckRaises(t) PROVE Rest'
  BY <1>7 DEF CheckRaises, Raise, CallPc
<1>8. ASSUME NEW t \in Threads, Record(t) PROVE Rest'
  BY <1>8 DEF Record, RecordSuccess, RecordFailure, CallPc
<1>9. ASSUME NEW t \in Threads, Report(t) PROVE Rest'
  <2>1. /\ call' = [call EXCEPT ![t] = "out"]
        /\ at' = [at EXCEPT ![t] = IF @ = "postgres" THEN "redis" ELSE "idle"]
        /\ status' = [status EXCEPT ![t][at[t]] = IF call[t] = "ok" THEN "ok" ELSE "down"]
        /\ at[t] \in Dependencies
        /\ UNCHANGED <<up, answered>>
    BY <1>9 DEF Report, ReadState
  <2>2. status' \in [Threads -> [Dependencies -> {"ok", "down"}]]
    BY <2>1
  <2>3. QED
    BY <2>1, <2>2, DependencyAssumption DEF CallPc
<1>10. CASE UNCHANGED vars
  BY <1>10 DEF vars
<1>11. QED
  BY <1>2, <1>3, <1>4, <1>5, <1>6, <1>7, <1>8, <1>9, <1>10 DEF Next

\* An answer travels with its thread until it is in the entry.
LEMMA NextAnswersKept ==
  ASSUME TypeOK, AnswersKept, [Next]_vars
  PROVE  AnswersKept'
<1> USE DependencyAssumption
<1>1. CASE Clock
  BY <1>1 DEF Clock, Tick, AnswersKept
<1>2. ASSUME NEW d \in Dependencies, Toggle(d) PROVE AnswersKept'
  BY <1>2 DEF Toggle, AnswersKept
<1>3. ASSUME NEW t \in Threads, Begin(t) PROVE AnswersKept'
  BY <1>3 DEF Begin, AnswersKept, TypeOK, BreakerTypeOK
<1>4. ASSUME NEW t \in Threads, Ask(t) PROVE AnswersKept'
  BY <1>4 DEF Ask, Admit, AnswersKept, TypeOK, BreakerTypeOK
<1>5. ASSUME NEW t \in Threads, CheckAnswers(t) PROVE AnswersKept'
  BY <1>5 DEF CheckAnswers, Return, AnswersKept, TypeOK, BreakerTypeOK
<1>6. ASSUME NEW t \in Threads, CheckRaises(t) PROVE AnswersKept'
  BY <1>6 DEF CheckRaises, Raise, AnswersKept, TypeOK, BreakerTypeOK
<1>7. ASSUME NEW t \in Threads, Record(t) PROVE AnswersKept'
  BY <1>7 DEF Record, RecordSuccess, RecordFailure, AnswersKept, TypeOK, BreakerTypeOK
<1>8. ASSUME NEW t \in Threads, Report(t) PROVE AnswersKept'
  BY <1>8 DEF Report, ReadState, Ended, AnswersKept, TypeOK, BreakerTypeOK
<1>9. CASE UNCHANGED vars
  BY <1>9 DEF vars, AnswersKept
<1>10. QED
  BY <1>1, <1>2, <1>3, <1>4, <1>5, <1>6, <1>7, <1>8, <1>9 DEF Next

\* Every breaker stays consistent and every answer is kept, whatever the threads do.
THEOREM HealthInvariance == Spec => []IndInv
<1>1. IndInv /\ [Next]_vars => IndInv'
  BY BreakersStayWell, NextTypeOK, NextAnswersKept DEF IndInv, TypeOK, BreakerTypeOK
<1>2. QED
  BY InitIndInv, <1>1, PTL DEF Spec

\* The three attributes of a breaker never contradict each other.
THEOREM AttributesAlwaysAgree == Spec => []AttributesAgree
<1>1. IndInv => AttributesAgree
  BY DEF IndInv
<1>2. QED
  BY <1>1, HealthInvariance, PTL

\* A response says ok exactly when both dependencies answered this very request.
THEOREM ResponsesAreFresh == Spec => []HealthIsFresh
<1>1. IndInv => HealthIsFresh
  BY DependencyAssumption DEF IndInv, TypeOK, AnswersKept, HealthIsFresh, Healthy
<1>2. QED
  BY <1>1, HealthInvariance, PTL

-----------------------------------------------------------------------------
(* Refinement.                                                              *)

\* The verdict of a thread that moves from one place in `call` to another.
LEMMA VerdictMoves ==
  ASSUME call \in [Threads -> CallPc], NEW t \in Threads, NEW pc \in CallPc,
         call' = [call EXCEPT ![t] = pc]
  PROVE  [x \in Threads |-> Verdict(x)]'
           = [[x \in Threads |-> Verdict(x)] EXCEPT ![t] =
               CASE pc \in {"inside", "returned", "raised"} -> "admitted"
                 [] pc = "refused" -> "refused"
                 [] OTHER -> "none"]
BY DEF Verdict

\* Steps that only look at a breaker show nothing of it.
LEMMA LookingIsHidden ==
  ASSUME breaker \in [Dependencies -> Breaker], AttributesAgree, NEW d \in Dependencies,
         breaker' = [breaker EXCEPT ![d] = CurrentState(@)]
  PROVE  /\ [e \in Dependencies |-> breaker[e].failures]' = [e \in Dependencies |-> breaker[e].failures]
         /\ [e \in Dependencies |-> Quiet(breaker[e])]' = [e \in Dependencies |-> Quiet(breaker[e])]
BY CurrentStateAgrees DEF AttributesAgree, Quiet

\* Every step of the threads and the clock is a step of FailureStreak or shows
\* nothing of it.
LEMMA StreakStep ==
  ASSUME IndInv, [Next]_vars
  PROVE  [Promise!Next]_(Promise!vars)
<1> DEFINE S == [d \in Dependencies |-> breaker[d].failures]
           Q == [d \in Dependencies |-> Quiet(breaker[d])]
           V == [t \in Threads |-> Verdict(t)]
<1> SUFFICES \/ Promise!Next
             \/ S' = S /\ Q' = Q /\ V' = V
  BY DEF Promise!vars
<1> USE DEF IndInv, TypeOK, BreakerTypeOK
<1>1. CASE Clock
  <2>1. breaker' = [d \in Dependencies |-> Aged(breaker[d])] /\ call' = call
    BY <1>1 DEF Clock, Tick
  <2>2. V' = V
    BY <2>1 DEF Verdict
  <2>3. S' = S
    BY <2>1, AgedAgrees DEF AttributesAgree
  <2>4. Q' = [d \in Dependencies |->
                IF S[d] = FailureThreshold /\ Q[d] < RecoveryTimeout THEN Q[d] + 1 ELSE Q[d]]
    BY <2>1, AgedAgrees DEF AttributesAgree
  <2>5. Promise!Wait
    BY <2>2, <2>3, <2>4 DEF Promise!Wait, Promise!CoolingDown, Promise!Full
  <2>6. QED
    BY <2>5 DEF Promise!Next
<1>2. ASSUME NEW t \in Threads, Ask(t)
      PROVE  Promise!Next
  <2> DEFINE d == at[t]
             pc == IF breaker'[d].state = "open" THEN "refused" ELSE "inside"
  <2>1. /\ d \in Dependencies
        /\ call[t] = "out"
        /\ breaker' = [breaker EXCEPT ![d] = CurrentState(@)]
        /\ call' = [call EXCEPT ![t] = pc]
    BY <1>2 DEF Ask, Admit
  <2>2. S' = S /\ Q' = Q
    BY <2>1, LookingIsHidden
  <2>3. breaker'[d].state = "open" <=> Promise!CoolingDown(d)
    BY <2>1, CurrentStateAgrees DEF AttributesAgree, Promise!CoolingDown, Promise!Full
  <2>4. V[t] = "none"
    BY <2>1 DEF Verdict
  <2>5. V' = [V EXCEPT ![t] = IF Promise!CoolingDown(d) THEN "refused" ELSE "admitted"]
    <3> HIDE DEF d
    <3>1. pc \in CallPc
      BY DEF CallPc
    <3>2. QED
      BY <2>1, <2>3, <3>1, VerdictMoves
  <2>6. Promise!Ask(t, d)
    BY <2>2, <2>4, <2>5 DEF Promise!Ask
  <2>7. QED
    BY <2>1, <2>6 DEF Promise!Next
<1>3. ASSUME NEW t \in Threads, Record(t)
      PROVE  Promise!Next
  <2> DEFINE d == at[t]
  <2>1. d \in Dependencies
    BY <1>3 DEF Record
  <2>2. CASE RecordSuccess(t, d)
    <3>1. /\ breaker' = [breaker EXCEPT ![d] = AfterSuccess(@)]
          /\ call' = [call EXCEPT ![t] = "ok"]
          /\ call[t] = "returned"
      BY <2>2 DEF RecordSuccess
    <3>2. S' = [S EXCEPT ![d] = 0] /\ Q' = [Q EXCEPT ![d] = 0]
      BY <2>1, <3>1, AfterSuccessAgrees DEF AttributesAgree
    <3>3. V[t] = "admitted" /\ V' = [V EXCEPT ![t] = "none"]
      BY <3>1 DEF Verdict
    <3>4. QED
      BY <2>1, <3>2, <3>3 DEF Promise!Succeed, Promise!Next
  <2>3. CASE RecordFailure(t, d)
    <3>1. /\ breaker' = [breaker EXCEPT ![d] = AfterFailure(@)]
          /\ call' = [call EXCEPT ![t] = "failed"]
          /\ call[t] = "raised"
      BY <2>3 DEF RecordFailure
    <3>2. /\ S' = [S EXCEPT ![d] = IF S[d] = FailureThreshold THEN S[d] ELSE S[d] + 1]
          /\ Q' = [Q EXCEPT ![d] = 0]
      BY <2>1, <3>1, AfterFailureAgrees DEF AttributesAgree
    <3>3. V[t] = "admitted" /\ V' = [V EXCEPT ![t] = "none"]
      BY <3>1 DEF Verdict
    <3>4. QED
      BY <2>1, <3>2, <3>3 DEF Promise!Fail, Promise!Full, Promise!Next
  <2>4. QED
    BY <1>3, <2>2, <2>3 DEF Record
<1>4. ASSUME NEW t \in Threads, CheckAnswers(t) \/ CheckRaises(t)
      PROVE  S' = S /\ Q' = Q /\ V' = V
  BY <1>4 DEF CheckAnswers, CheckRaises, Return, Raise, Verdict
<1>5. ASSUME NEW t \in Threads, Report(t)
      PROVE  Promise!Next \/ (S' = S /\ Q' = Q /\ V' = V)
  <2>1. /\ at[t] \in Dependencies
        /\ call[t] \in Ended
        /\ breaker' = [breaker EXCEPT ![at[t]] = CurrentState(@)]
        /\ call' = [call EXCEPT ![t] = "out"]
    BY <1>5 DEF Report, ReadState
  <2>2. S' = S /\ Q' = Q
    BY <2>1, LookingIsHidden
  <2>3. CASE call[t] = "refused"
    <3>1. V[t] = "refused" /\ V' = [V EXCEPT ![t] = "none"]
      BY <2>1, <2>3 DEF Verdict
    <3>2. QED
      BY <2>2, <3>1 DEF Promise!Leave, Promise!Next
  <2>4. CASE call[t] # "refused"
    <3>1. V' = V
      BY <2>1, <2>4 DEF Verdict, Ended
    <3>2. QED
      BY <2>2, <3>1
  <2>5. QED
    BY <2>3, <2>4
<1>6. CASE UNCHANGED <<breaker, call>>
  BY <1>6 DEF Verdict
<1>7. QED
  BY <1>1, <1>2, <1>3, <1>4, <1>5, <1>6 DEF Next, Toggle, Begin, vars

\* A breaker refuses a call exactly when the last `failure_threshold` results were
\* failures and the latest of them is younger than `recovery_timeout`, for any
\* number of threads with results under way.
THEOREM BreakerKeepsPromise == Spec => RefinesStreak
<1>1. Init => Promise!Init
  BY DEF Init, BreakerInit, Fresh, Quiet, Verdict, Promise!Init
<1>2. IndInv /\ [Next]_vars => [Promise!Next]_(Promise!vars)
  BY StreakStep
<1>3. QED
  BY <1>1, <1>2, HealthInvariance, PTL DEF Spec, RefinesStreak, Promise!Spec
=============================================================================
