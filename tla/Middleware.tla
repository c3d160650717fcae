------------------------------ MODULE Middleware ------------------------------
(***************************************************************************)
(* The layers around every endpoint (app/main.py:43-46).  From the outside *)
(* in: request identifier, rate limiter, audit, security headers, then     *)
(* Starlette's exception handlers and the endpoint.  The limiter           *)
(* (app/core/rate_limit.py) counts in Redis, one key per identity and      *)
(* window, with an await at each command, where requests interleave.  An   *)
(* exception a layer raises passes the layers outside it by.               *)
(***************************************************************************)
EXTENDS Naturals, FiniteSets

CONSTANTS
  Requests,      \* each arrives once
  Identities,    \* API keys, or client addresses without one
  Limit,         \* rate_limit_requests
  LastWindow     \* bound on the clock

ASSUME MiddlewareAssumption == Limit \in Nat \ {0} /\ LastWindow \in Nat

Windows == 0..LastWindow
Keys == Identities \X Windows

\* Windows in which the expiry of a key may be set; it is not set at creation.
Never == LastWindow + 1

VARIABLES
  clock,      \* int(time.time()) // window_seconds
  counter,    \* the Redis keys: their value, 0 for no key, and when EXPIRE ran
  request,    \* of each request: its layer, key, count and response
  created,    \* how often each key came into being (history)
  passed,     \* requests of each key that the limiter let through (history)
  failed      \* keys for which a Redis command failed (history)

vars == <<clock, counter, request, created, passed, failed>>

NoKey == [count |-> 0, expiry |-> Never]

\* status: of the response, "none" before it.  secured: it carries the security
\* headers.
Request == [at : {"new", "incr", "expire", "decide", "endpoint", "audit", "raised", "done"},
            key : Keys,
            count : Nat,
            status : {"none", "answer", "error"},
            secured : BOOLEAN]

Init ==
  /\ clock = 0
  /\ counter = [k \in Keys |-> NoKey]
  /\ request \in [Requests -> {[at |-> "new", key |-> <<i, 0>>, count |-> 0,
                                status |-> "none", secured |-> FALSE] : i \in Identities}]
  /\ created = [k \in Keys |-> 0]
  /\ passed = [k \in Keys |-> 0]
  /\ failed = {}

Moves(q, at) == request' = [request EXCEPT ![q].at = at]

Exists(k) == counter[k].count > 0

-----------------------------------------------------------------------------
(* The limiter.                                                             *)

\* /health and /metrics are not counted.
ArriveExempt(q) ==
  /\ request[q].at = "new"
  /\ Moves(q, "endpoint")
  /\ UNCHANGED <<clock, counter, created, passed, failed>>

\* The window is the one the request arrives in, however late its commands run.
Arrive(q) ==
  /\ request[q].at = "new"
  /\ request' = [request EXCEPT ![q] =
       [request[q] EXCEPT !.at = "incr", !.key = <<request[q].key[1], clock>>]]
  /\ UNCHANGED <<clock, counter, created, passed, failed>>

CountUp(k) ==
  /\ counter' = [counter EXCEPT ![k].count = @ + 1]
  /\ created' = [created EXCEPT ![k] = IF Exists(k) THEN @ ELSE @ + 1]

\* Slip: the expiry is set by the request that reaches the limit.
Incr_ExpiresAtLimit(q) ==
  LET k == request[q].key
      n == counter[k].count + 1
  IN /\ request[q].at = "incr"
     /\ CountUp(k)
     /\ request' = [request EXCEPT ![q] =
          [@ EXCEPT !.count = n, !.at = IF n = Limit THEN "expire" ELSE "decide"]]
     /\ UNCHANGED <<clock, passed, failed>>

\* Slip: a request is judged by the count it found, without itself.
Incr_WithoutItself(q) ==
  LET k == request[q].key
      n == counter[k].count
  IN /\ request[q].at = "incr"
     /\ CountUp(k)
     /\ request' = [request EXCEPT ![q] =
          [@ EXCEPT !.count = n, !.at = IF n = 0 THEN "expire" ELSE "decide"]]
     /\ UNCHANGED <<clock, passed, failed>>

\* INCR, whose answer tells the first request of a key to set its expiry.
Incr(q) ==
  LET k == request[q].key
      n == counter[k].count + 1
  IN /\ request[q].at = "incr"
     /\ CountUp(k)
     /\ request' = [request EXCEPT ![q] =
          [@ EXCEPT !.count = n, !.at = IF n = 1 THEN "expire" ELSE "decide"]]
     /\ UNCHANGED <<clock, passed, failed>>

\* Slip: the expiry outlasts two more windows.
Expire_TooLong(q) ==
  /\ request[q].at = "expire"
  /\ counter' = [counter EXCEPT ![request[q].key].expiry = clock + 2]
  /\ Moves(q, "decide")
  /\ UNCHANGED <<clock, created, passed, failed>>

\* EXPIRE, for one window and a second from now.
Expire(q) ==
  /\ request[q].at = "expire"
  /\ counter' = [counter EXCEPT ![request[q].key].expiry = clock]
  /\ Moves(q, "decide")
  /\ UNCHANGED <<clock, created, passed, failed>>

\* A command fails, before or after Redis executed it: the limiter raises
\* HTTPException(503).
RedisFails(q) ==
  LET k == request[q].key
  IN /\ request[q].at \in {"incr", "expire"}
     /\ \/ UNCHANGED <<counter, created>>
        \/ request[q].at = "incr" /\ CountUp(k)
        \/ /\ request[q].at = "expire"
           /\ counter' = [counter EXCEPT ![k].expiry = clock]
           /\ UNCHANGED created
     /\ failed' = failed \cup {k}
     /\ Moves(q, "raised")
     /\ UNCHANGED <<clock, passed>>

\* Slip: the limit itself is one request too many.
Decide_OneMore(q) ==
  /\ request[q].at = "decide"
  /\ IF request[q].count > Limit + 1
     THEN Moves(q, "raised") /\ UNCHANGED passed
     ELSE Moves(q, "endpoint") /\ passed' = [passed EXCEPT ![request[q].key] = @ + 1]
  /\ UNCHANGED <<clock, counter, created, failed>>

\* Over the limit the limiter raises HTTPException(429).
Decide(q) ==
  /\ request[q].at = "decide"
  /\ IF request[q].count > Limit
     THEN Moves(q, "raised") /\ UNCHANGED passed
     ELSE Moves(q, "endpoint") /\ passed' = [passed EXCEPT ![request[q].key] = @ + 1]
  /\ UNCHANGED <<clock, counter, created, failed>>

-----------------------------------------------------------------------------
(* The layers inside the limiter, and the way back.                         *)

\* The endpoint, whose HTTPExceptions become responses inside all middlewares, and
\* the security headers.
Answer(q) ==
  /\ request[q].at = "endpoint"
  /\ request' = [request EXCEPT ![q] = [@ EXCEPT !.at = "audit", !.secured = TRUE]]
  /\ UNCHANGED <<clock, counter, created, passed, failed>>

\* Any other exception of the endpoint.
EndpointRaises(q) ==
  /\ request[q].at = "endpoint"
  /\ Moves(q, "raised")
  /\ UNCHANGED <<clock, counter, created, passed, failed>>

\* The audit row of a mutating request is committed (or none is due), and the
\* response goes out with its identifier.
AuditAndRespond(q) ==
  /\ request[q].at = "audit"
  /\ request' = [request EXCEPT ![q] = [@ EXCEPT !.at = "done", !.status = "answer"]]
  /\ UNCHANGED <<clock, counter, created, passed, failed>>

\* The commit of the audit row fails: the response is lost, the mutation is not.
AuditFails(q) ==
  /\ request[q].at = "audit"
  /\ Moves(q, "raised")
  /\ UNCHANGED <<clock, counter, created, passed, failed>>

\* What no middleware catches ends in Starlette's outermost layer, which writes a
\* plain 500 of its own.
ServerError(q) ==
  /\ request[q].at = "raised"
  /\ request' = [request EXCEPT ![q] =
       [@ EXCEPT !.at = "done", !.status = "error", !.secured = FALSE]]
  /\ UNCHANGED <<clock, counter, created, passed, failed>>

-----------------------------------------------------------------------------
(* Time.                                                                    *)

NextWindow ==
  /\ clock < LastWindow
  /\ clock' = clock + 1
  /\ UNCHANGED <<counter, request, created, passed, failed>>

\* A window and a second after EXPIRE, at the earliest in the window that follows.
\* (In the last window of the model time goes on, uncounted.)
KeyExpires(k) ==
  /\ counter[k].expiry # Never
  /\ counter[k].expiry < clock \/ clock = LastWindow
  /\ counter' = [counter EXCEPT ![k] = NoKey]
  /\ UNCHANGED <<clock, request, created, passed, failed>>

Next ==
  \/ NextWindow
  \/ \E k \in Keys : KeyExpires(k)
  \/ \E q \in Requests :
       \/ ArriveExempt(q) \/ Arrive(q)
       \/ Incr(q) \/ Expire(q) \/ RedisFails(q) \/ Decide(q)
       \/ Answer(q) \/ EndpointRaises(q)
       \/ AuditAndRespond(q) \/ AuditFails(q) \/ ServerError(q)

Spec == Init /\ [][Next]_vars

\* Time goes on, and Redis either executes a command or fails.
FairSpec ==
  /\ Spec
  /\ WF_vars(NextWindow)
  /\ \A k \in Keys : WF_vars(KeyExpires(k))
  /\ \A q \in Requests : WF_vars(Incr(q) \/ Expire(q) \/ RedisFails(q))

-----------------------------------------------------------------------------

TypeOK ==
  /\ clock \in Windows
  /\ counter \in [Keys -> [count : Nat, expiry : Windows \cup {Never}]]
  /\ \A k \in Keys : counter[k].count = 0 => counter[k] = NoKey
  /\ request \in [Requests -> Request]
  /\ created \in [Keys -> Nat]
  /\ passed \in [Keys -> Nat]
  /\ failed \subseteq Keys

\* "fixed-window API rate limiting" (README.md:23): an identity gets no more than the
\* limit through a window.  The exception: a command so late that the key of its
\* window has expired creates it anew, and counting begins again.
WindowLimit == \A k \in Keys : passed[k] <= Limit * created[k]

\* Counted within the limit, and not let through yet.
Holding(k) ==
  {q \in Requests : /\ request[q].key = k
                    /\ request[q].at \in {"expire", "decide"}
                    /\ request[q].count <= Limit}

\* What the lives of a key have granted: the limit for each one that is over, and for
\* the present one as much of it as was counted.
Grant(count, lives) ==
  IF count = 0 THEN Limit * lives
  ELSE Limit * (lives - 1) + (IF count <= Limit THEN count ELSE Limit)

Granted(k) == Grant(counter[k].count, created[k])

Covered(k) ==
  /\ IsFiniteSet(Holding(k))
  /\ Exists(k) => created[k] > 0
  /\ passed[k] + Cardinality(Holding(k)) <= Granted(k)

\* What makes WindowLimit inductive: whoever passed the limiter or will pass it, was
\* granted it, also when the key expires while requests are on their way.
GrantsCover == \A k \in Keys : Covered(k)

\* A key without an expiry, which no request is about to set, is left behind by a
\* failed command; INCR and EXPIRE are two commands.
NoKeyForgotten ==
  \A k \in Keys :
    Exists(k) /\ counter[k].expiry = Never =>
      \/ k \in failed
      \/ \E q \in Requests : request[q].key = k /\ request[q].at = "expire"

\* Redis does not fill with counters: without a failure every key disappears.
KeysDisappear == \A k \in Keys : Exists(k) ~> ~Exists(k) \/ k \in failed

\* "Security headers are added to every response" (README.md:274).
EveryResponseSecured ==
  \A q \in Requests : request[q].status # "none" => request[q].secured
=============================================================================
