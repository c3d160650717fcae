-------------------------------- MODULE Health --------------------------------
(***************************************************************************)
(* app/api/v1/health.py: GET /health asks PostgreSQL, then Redis, each     *)
(* behind its breaker.  The endpoint is a plain function, so that requests *)
(* run at the same time in FastAPI's thread pool, over the same two        *)
(* module-level breakers.  The reported `circuit` values are left out (no  *)
(* property is about them); reading them is not, since it changes a state. *)
(***************************************************************************)
EXTENDS CircuitBreaker

ASSUME DependencyAssumption == Dependencies = {"postgres", "redis"}

VARIABLES
  up,           \* does the dependency answer?  (environment)
  at,           \* the dependency a request is asking, or "idle"
  status,       \* dependencies[d]["status"] of the current or latest request
  answered      \* dependencies that answered the current or latest request (history)

vars == <<breaker, call, up, at, status, answered>>

Init ==
  /\ BreakerInit
  /\ up = [d \in Dependencies |-> TRUE]
  /\ at = [t \in Threads |-> "idle"]
  /\ status = [t \in Threads |-> [d \in Dependencies |-> "down"]]
  /\ answered = [t \in Threads |-> {}]

\* A request arrives: both dependencies are down until asked.
Begin(t) ==
  /\ at[t] = "idle"
  /\ at' = [at EXCEPT ![t] = "postgres"]
  /\ status' = [status EXCEPT ![t] = [d \in Dependencies |-> "down"]]
  /\ answered' = [answered EXCEPT ![t] = {}]
  /\ UNCHANGED <<breaker, call, up>>

\* Slip: nobody catches CircuitOpenError.
Ask_Uncaught(t) ==
  /\ at[t] # "idle"
  /\ Admit(t, at[t])
  /\ at' = [at EXCEPT ![t] = IF call'[t] = "refused" THEN "idle" ELSE @]
  /\ UNCHANGED <<up, status, answered>>

Ask(t) ==
  /\ at[t] # "idle"
  /\ Admit(t, at[t])
  /\ UNCHANGED <<up, at, status, answered>>

\* SELECT 1 or PING: an answer while the dependency is up, an exception while it
\* is not.
CheckAnswers(t) ==
  /\ at[t] # "idle" /\ up[at[t]]
  /\ Return(t)
  /\ answered' = [answered EXCEPT ![t] = @ \cup {at[t]}]
  /\ UNCHANGED <<up, at, status>>

CheckRaises(t) ==
  /\ at[t] # "idle" /\ ~up[at[t]]
  /\ Raise(t)
  /\ UNCHANGED <<up, at, status, answered>>

Record(t) ==
  /\ at[t] # "idle"
  /\ RecordSuccess(t, at[t]) \/ RecordFailure(t, at[t])
  /\ UNCHANGED <<up, at, status, answered>>

\* Slip: only a failed check makes the entry "down", not a refused one.
Report_RefusedIsOk(t) ==
  /\ at[t] # "idle"
  /\ ReadState(t, at[t])
  /\ status' = [status EXCEPT ![t][at[t]] = IF call[t] = "failed" THEN "down" ELSE "ok"]
  /\ at' = [at EXCEPT ![t] = IF @ = "postgres" THEN "redis" ELSE "idle"]
  /\ UNCHANGED <<up, answered>>

\* The dependency's entry is written, which reads the circuit's state; then comes
\* the next dependency, or the response.
Report(t) ==
  /\ at[t] # "idle"
  /\ ReadState(t, at[t])
  /\ status' = [status EXCEPT ![t][at[t]] = IF call[t] = "ok" THEN "ok" ELSE "down"]
  /\ at' = [at EXCEPT ![t] = IF @ = "postgres" THEN "redis" ELSE "idle"]
  /\ UNCHANGED <<up, answered>>

Clock == Tick /\ UNCHANGED <<up, at, status, answered>>

\* A dependency stops answering, or answers again.
Toggle(d) ==
  /\ up' = [up EXCEPT ![d] = ~@]
  /\ UNCHANGED <<breaker, call, at, status, answered>>

Next ==
  \/ Clock
  \/ \E d \in Dependencies : Toggle(d)
  \/ \E t \in Threads :
       Begin(t) \/ Ask(t) \/ CheckAnswers(t) \/ CheckRaises(t) \/ Record(t) \/ Report(t)

Spec == Init /\ [][Next]_vars

\* The clock goes on, the container's health check asks again and again
\* (docker-compose.yml:60), a thread goes on with its own statements, and a check
\* ends once its dependency answers.  A check of a dead dependency may hang: no
\* timeout is configured.
Fairness ==
  /\ WF_vars(Clock)
  /\ WF_vars(\E t \in Threads : Begin(t))
  /\ \A t \in Threads : WF_vars(Ask(t) \/ CheckAnswers(t) \/ Record(t) \/ Report(t))

FairSpec == Spec /\ Fairness

-----------------------------------------------------------------------------

TypeOK ==
  /\ BreakerTypeOK
  /\ up \in [Dependencies -> BOOLEAN]
  /\ at \in [Threads -> Dependencies \cup {"idle"}]
  /\ status \in [Threads -> [Dependencies -> {"ok", "down"}]]
  /\ answered \in [Threads -> SUBSET Dependencies]
  /\ \A t \in Threads : at[t] = "idle" => call[t] = "out"

\* all(dep["status"] == "ok"): the response's own status.
Healthy(t) == \A d \in Dependencies : status[t][d] = "ok"

\* A response says ok exactly when both dependencies answered this very request:
\* no breaker, no other thread and no earlier request can say it for them.
HealthIsFresh ==
  \A t \in Threads : at[t] = "idle" => (Healthy(t) <=> answered[t] = Dependencies)

\* The strengthening for HealthIsFresh: while a dependency is asked, its answer is
\* with the thread; before and after that it is in the entry.
AnswersKept ==
  \A t \in Threads :
    /\ at[t] = "postgres" => "redis" \notin answered[t]
    /\ \A d \in Dependencies :
         d \in answered[t] <=>
           IF d = at[t] THEN call[t] \in {"returned", "ok"} ELSE status[t][d] = "ok"

IndInv == TypeOK /\ AttributesAgree /\ AnswersKept

-----------------------------------------------------------------------------
(* Refinement: the state machine with its lazy half-open state, and results *)
(* that other threads record in any order, is no more than a failure streak *)
(* and a stopwatch.                                                         *)

Quiet(b) == IF b.openFor = NotOpened THEN 0 ELSE b.openFor

Verdict(t) ==
  CASE call[t] \in {"inside", "returned", "raised"} -> "admitted"
    [] call[t] = "refused" -> "refused"
    [] OTHER -> "none"

Promise == INSTANCE FailureStreak
             WITH streak <- [d \in Dependencies |-> breaker[d].failures],
                  quiet <- [d \in Dependencies |-> Quiet(breaker[d])],
                  verdict <- [t \in Threads |-> Verdict(t)]

\* A call is refused exactly when threshold consecutive results were failures and
\* the latest of them is younger than the recovery timeout.
RefinesStreak == Promise!Spec

-----------------------------------------------------------------------------

\* Once both dependencies stay up, both circuits close for good: neither the
\* results of old checks nor an open circuit nobody asked keep them open.
Heals ==
  (<>[](\A d \in Dependencies : up[d])) =>
    \A d \in Dependencies : <>[](breaker[d].state = "closed")
=============================================================================
