--------------------------- MODULE MiddlewareProofs ---------------------------
(***************************************************************************)
(* The counters of the rate limiter for any number of requests and         *)
(* identities, any limit and any number of windows.                        *)
(***************************************************************************)
EXTENDS Middleware, SetSizes

Types ==
  /\ clock \in Windows
  /\ counter \in [Keys -> [count : Nat, expiry : Windows \cup {Never}]]
  /\ request \in [Requests -> Request]
  /\ created \in [Keys -> Nat]
  /\ passed \in [Keys -> Nat]
  /\ failed \subseteq Keys

NoneCountedIsNoKey == \A k \in Keys : counter[k].count = 0 => counter[k] = NoKey

\* The request is about to set the expiry of the key.
Pends(q, k) == request[q].at = "expire" /\ request[q].key = k

\* It is the only one, and finds the key it counted up, still without expiry.
ExpirePending ==
  \A q \in Requests, k \in Keys :
    Pends(q, k) =>
      /\ Exists(k) /\ counter[k].expiry = Never
      /\ \A o \in Requests : Pends(o, k) => o = q

IInv == Types /\ NoneCountedIsNoKey /\ ExpirePending /\ NoKeyForgotten

-----------------------------------------------------------------------------

\* How a request may change in one step, other than by Redis' answers.
LEMMA RequestTypes ==
  ASSUME NEW r \in Request, NEW at \in {"new", "incr", "expire", "decide", "endpoint", "audit", "raised", "done"},
         NEW n \in Nat, NEW k \in Keys
  PROVE  /\ [r EXCEPT !.at = at] \in Request
         /\ [r EXCEPT !.at = at, !.key = k] \in Request
         /\ [r EXCEPT !.count = n, !.at = at] \in Request
         /\ [r EXCEPT !.at = "audit", !.secured = TRUE] \in Request
         /\ [r EXCEPT !.at = "done", !.status = "answer"] \in Request
         /\ [r EXCEPT !.at = "done", !.status = "error", !.secured = FALSE] \in Request
BY DEF Request

LEMMA CounterTypes ==
  ASSUME Types, NEW k \in Keys
  PROVE  /\ counter[k].count \in Nat
         /\ CountUp(k) =>
              /\ counter' \in [Keys -> [count : Nat, expiry : Windows \cup {Never}]]
              /\ created' \in [Keys -> Nat]
              /\ counter'[k].count = counter[k].count + 1
              /\ counter'[k].expiry = counter[k].expiry
              /\ \A o \in Keys : o # k => counter'[o] = counter[o]
         /\ counter' = [counter EXCEPT ![k].expiry = clock] =>
              /\ counter' \in [Keys -> [count : Nat, expiry : Windows \cup {Never}]]
              /\ counter'[k].count = counter[k].count
              /\ counter'[k].expiry = clock
              /\ \A o \in Keys : o # k => counter'[o] = counter[o]
         /\ counter' = [counter EXCEPT ![k] = NoKey] =>
              counter' \in [Keys -> [count : Nat, expiry : Windows \cup {Never}]]
<1>1. NoKey \in [count : Nat, expiry : Windows \cup {Never}]
  BY DEF NoKey
<1>2. QED
  BY <1>1 DEF Types, CountUp

\* A request keeps its key once it has one; only Arrive gives it one.
LEMMA TypesStep ==
  ASSUME Types, MiddlewareAssumption, Next
  PROVE  Types'
<1>1. request \in [Requests -> Request]
  BY DEF Types
<1>2. \A q \in Requests : request[q] \in Request /\ request[q].key \in Keys
  BY <1>1 DEF Request
<1>3. ASSUME NEW q \in Requests,
             NEW at \in {"new", "incr", "expire", "decide", "endpoint", "audit", "raised", "done"},
             Moves(q, at)
      PROVE  request' \in [Requests -> Request]
  BY <1>1, <1>2, <1>3, RequestTypes DEF Moves
<1>4. CASE NextWindow
  BY <1>4 DEF Types, NextWindow, Windows, MiddlewareAssumption
<1>5. ASSUME NEW k \in Keys, KeyExpires(k)
      PROVE  Types'
  BY <1>5, CounterTypes DEF Types, KeyExpires
<1>6. ASSUME NEW q \in Requests, ArriveExempt(q) \/ EndpointRaises(q) \/ AuditFails(q)
      PROVE  Types'
  <2>1. request' \in [Requests -> Request]
    BY <1>3, <1>6 DEF ArriveExempt, EndpointRaises, AuditFails
  <2>2. QED
    BY <2>1, <1>6 DEF Types, ArriveExempt, EndpointRaises, AuditFails
<1>7. ASSUME NEW q \in Requests, Arrive(q)
      PROVE  Types'
  <2>1. <<request[q].key[1], clock>> \in Keys
    BY <1>2 DEF Keys, Types
  <2> DEFINE r == [request[q] EXCEPT !.at = "incr", !.key = <<request[q].key[1], clock>>]
  <2>2. r \in Request
    BY <1>2, <2>1, RequestTypes
  <2>3. request' \in [Requests -> Request]
    <3>1. request' = [request EXCEPT ![q] = r]
      BY <1>7 DEF Arrive
    <3> HIDE DEF r
    <3>2. QED
      BY <1>1, <2>2, <3>1
  <2>4. QED
    BY <2>3, <1>7 DEF Types, Arrive
<1>8. ASSUME NEW q \in Requests, Incr(q)
      PROVE  Types'
  <2> DEFINE n == counter[request[q].key].count + 1
             at == IF n = 1 THEN "expire" ELSE "decide"
  <2>1. n \in Nat
    BY <1>2, CounterTypes
  <2>2. [request[q] EXCEPT !.count = n, !.at = at] \in Request
    BY <1>2, <2>1, RequestTypes
  <2>3. request' = [request EXCEPT ![q] = [request[q] EXCEPT !.count = n, !.at = at]]
    BY <1>8 DEF Incr
  <2> HIDE DEF n, at
  <2>4. request' \in [Requests -> Request]
    BY <1>1, <2>2, <2>3
  <2>5. QED
    BY <1>2, <1>8, <2>4, CounterTypes DEF Types, Incr
<1>9. ASSUME NEW q \in Requests, Expire(q)
      PROVE  Types'
  <2>1. request' \in [Requests -> Request]
    BY <1>3, <1>9 DEF Expire
  <2>2. QED
    BY <1>2, <1>9, <2>1, CounterTypes DEF Types, Expire
<1>10. ASSUME NEW q \in Requests, RedisFails(q)
       PROVE  Types'
  <2>1. request' \in [Requests -> Request]
    BY <1>3, <1>10 DEF RedisFails
  <2>2. failed' \subseteq Keys
    BY <1>2, <1>10 DEF RedisFails, Types
  <2>3. /\ counter' \in [Keys -> [count : Nat, expiry : Windows \cup {Never}]]
        /\ created' \in [Keys -> Nat]
    BY <1>2, <1>10, CounterTypes DEF RedisFails, Types
  <2>4. QED
    BY <1>10, <2>1, <2>2, <2>3 DEF Types, RedisFails
<1>11. ASSUME NEW q \in Requests, Decide(q)
       PROVE  Types'
  <2>1. request' \in [Requests -> Request]
    BY <1>3, <1>11 DEF Decide
  <2>2. passed' \in [Keys -> Nat]
    BY <1>2, <1>11 DEF Decide, Types
  <2>3. QED
    BY <1>11, <2>1, <2>2 DEF Types, Decide
<1>12. ASSUME NEW q \in Requests, Answer(q) \/ AuditAndRespond(q) \/ ServerError(q)
       PROVE  Types'
  <2>1. PICK r \in Request : request' = [request EXCEPT ![q] = r]
    BY <1>2, <1>12, RequestTypes DEF Answer, AuditAndRespond, ServerError
  <2>2. request' \in [Requests -> Request]
    BY <1>1, <2>1
  <2>3. QED
    BY <2>2, <1>12 DEF Types, Answer, AuditAndRespond, ServerError
<1>13. QED
  BY <1>4, <1>5, <1>6, <1>7, <1>8, <1>9, <1>10, <1>11, <1>12 DEF Next

-----------------------------------------------------------------------------

\* Away from Redis no request comes to set an expiry, or stops doing so.
LEMMA NothingPends ==
  ASSUME Types, NEW q \in Requests, request[q].at # "expire",
         NEW r, r.at # "expire", request' = [request EXCEPT ![q] = r]
  PROVE  \A o \in Requests, k \in Keys : Pends(o, k)' <=> Pends(o, k)
BY DEF Pends, Types

\* Three effects on the counters that keep what IInv says of them.
LEMMA CountersKept ==
  ASSUME IInv, counter' = counter, failed' = failed,
         \A o \in Requests, k \in Keys : Pends(o, k)' <=> Pends(o, k)
  PROVE  NoneCountedIsNoKey' /\ ExpirePending' /\ NoKeyForgotten'
BY DEF IInv, NoneCountedIsNoKey, ExpirePending, NoKeyForgotten, Exists, Pends

LEMMA IncrKeeps ==
  ASSUME IInv, MiddlewareAssumption, NEW q \in Requests, Incr(q)
  PROVE  NoneCountedIsNoKey' /\ ExpirePending' /\ NoKeyForgotten'
<1> DEFINE k == request[q].key
           n == counter[k].count + 1
<1>1. Types /\ k \in Keys /\ k = request[q].key
  BY DEF IInv, Types, Request
<1>2. CountUp(k) /\ request[q].at = "incr" /\ failed' = failed
  BY DEF Incr
<1>3. /\ counter[k].count \in Nat
      /\ counter'[k].count = counter[k].count + 1
      /\ counter'[k].expiry = counter[k].expiry
      /\ \A o \in Keys : o # k => counter'[o] = counter[o]
  BY <1>1, <1>2, CounterTypes
<1>4. request' = [request EXCEPT ![q] =
        [request[q] EXCEPT !.count = n, !.at = IF n = 1 THEN "expire" ELSE "decide"]]
  BY DEF Incr
<1>5. request'[q].key = k /\ request'[q].at = IF n = 1 THEN "expire" ELSE "decide"
  BY <1>1, <1>4 DEF Types, Request
<1>6. \A o \in Requests : o # q => request'[o] = request[o]
  BY <1>1, <1>4 DEF Types
<1>7. n = 1 => counter[k] = NoKey
  BY <1>1, <1>3 DEF IInv, NoneCountedIsNoKey
<1>8. NoKey.count = 0 /\ NoKey.expiry = Never
  BY DEF NoKey
<1> HIDE DEF k
<1>9. NoneCountedIsNoKey'
  BY <1>1, <1>3 DEF IInv, NoneCountedIsNoKey
<1>10. \A o \in Requests, l \in Keys :
         Pends(o, l)' <=> (o = q /\ l = k /\ n = 1) \/ (o # q /\ Pends(o, l))
  BY <1>1, <1>5, <1>6 DEF Pends
<1>11. ~Pends(q, k) /\ \A l : ~Pends(q, l)
  BY <1>2 DEF Pends
<1>12. \A l \in Keys : Exists(l)' <=> (l = k \/ Exists(l))
  BY <1>1, <1>3 DEF Exists, IInv, Types
<1>13. \A l \in Keys : counter'[l].expiry = counter[l].expiry
  BY <1>3
<1>14. n = 1 => \A o \in Requests : ~Pends(o, k)
  BY <1>1, <1>7, <1>8 DEF IInv, ExpirePending, Exists
<1>15. ExpirePending'
  <2>1. SUFFICES ASSUME NEW o \in Requests, NEW l \in Keys, Pends(o, l)'
                 PROVE  /\ Exists(l)' /\ counter'[l].expiry = Never
                        /\ \A m \in Requests : Pends(m, l)' => m = o
    BY DEF ExpirePending
  <2>2. CASE o = q /\ l = k /\ n = 1
    BY <1>7, <1>8, <1>10, <1>12, <1>13, <1>14, <2>2
  <2>3. CASE o # q /\ Pends(o, l)
    BY <1>10, <1>12, <1>13, <1>14, <2>3 DEF IInv, ExpirePending
  <2>4. QED
    BY <1>10, <2>1, <2>2, <2>3
<1>16. NoKeyForgotten'
  <2>1. SUFFICES ASSUME NEW l \in Keys, Exists(l)', counter'[l].expiry = Never
                 PROVE  l \in failed \/ \E o \in Requests : Pends(o, l)'
    BY <1>2 DEF NoKeyForgotten, Pends
  <2>2. CASE l = k /\ n = 1
    BY <1>10, <2>2
  <2>3. CASE Exists(l)
    <3>1. l \in failed \/ \E o \in Requests : Pends(o, l)
      BY <1>13, <2>1, <2>3 DEF IInv, NoKeyForgotten, Pends
    <3>2. QED
      BY <1>10, <1>11, <3>1 DEF Pends
  <2>4. l = k /\ n # 1 => Exists(l)
    BY <1>1, <1>3 DEF Exists
  <2>5. QED
    BY <1>12, <2>1, <2>2, <2>3, <2>4
<1>17. QED
  BY <1>9, <1>15, <1>16

\* A request that stops pending has set the expiry of its key, or is recorded in failed.
LEMMA StopPending ==
  ASSUME IInv, MiddlewareAssumption, NEW q \in Requests, NEW k \in Keys, k = request[q].key,
         \A o \in Requests, l \in Keys : Pends(o, l)' <=> o # q /\ Pends(o, l),
         failed \subseteq failed', Pends(q, k),
         \A l \in Keys : l # k => counter'[l] = counter[l],
         counter'[k].count = counter[k].count,
         counter'[k].expiry # Never \/ (k \in failed' /\ counter' = counter)
  PROVE  NoneCountedIsNoKey' /\ ExpirePending' /\ NoKeyForgotten'
<1>1. Exists(k) /\ \A o \in Requests : Pends(o, k) => o = q
  BY DEF IInv, ExpirePending
<1>2. counter[k].count \in Nat /\ counter'[k].count > 0
  BY <1>1, CounterTypes DEF IInv, Exists
<1>3. NoneCountedIsNoKey'
  BY <1>2 DEF IInv, NoneCountedIsNoKey
<1>4. ExpirePending'
  <2>1. SUFFICES ASSUME NEW o \in Requests, NEW l \in Keys, Pends(o, l)'
                 PROVE  /\ Exists(l)' /\ counter'[l].expiry = Never
                        /\ \A m \in Requests : Pends(m, l)' => m = o
    BY DEF ExpirePending
  <2>2. o # q /\ Pends(o, l) /\ l # k
    BY <1>1, <2>1
  <2>3. QED
    BY <2>2 DEF IInv, ExpirePending, Exists
<1>5. NoKeyForgotten'
  <2>1. SUFFICES ASSUME NEW l \in Keys, Exists(l)', counter'[l].expiry = Never
                 PROVE  l \in failed' \/ \E o \in Requests : Pends(o, l)'
    BY DEF NoKeyForgotten, Pends
  <2>2. CASE l = k
    BY <2>1, <2>2
  <2>3. CASE l # k
    <3>1. l \in failed \/ \E o \in Requests : Pends(o, l)
      BY <2>1, <2>3 DEF IInv, NoKeyForgotten, Pends, Exists
    <3>2. ~Pends(q, l)
      BY <2>3 DEF Pends
    <3>3. QED
      BY <3>1, <3>2
  <2>4. QED
    BY <2>2, <2>3
<1>6. QED
  BY <1>3, <1>4, <1>5

LEMMA ExpireKeeps ==
  ASSUME IInv, MiddlewareAssumption, NEW q \in Requests,
         Expire(q) \/ (RedisFails(q) /\ request[q].at = "expire")
  PROVE  NoneCountedIsNoKey' /\ ExpirePending' /\ NoKeyForgotten'
<1> DEFINE k == request[q].key
<1>1. Types /\ k \in Keys /\ k = request[q].key
  BY DEF IInv, Types, Request
<1>2. request[q].at = "expire" /\ Pends(q, k)
  BY DEF Expire, Pends
<1>3. PICK at \in {"decide", "raised"} : request' = [request EXCEPT ![q].at = at]
  BY DEF Expire, RedisFails, Moves
<1>4. /\ request'[q].at = at
      /\ \A o \in Requests : o # q => request'[o] = request[o]
  BY <1>1, <1>3 DEF Types, Request
<1>5. \A o \in Requests, l \in Keys : Pends(o, l)' <=> o # q /\ Pends(o, l)
  BY <1>4 DEF Pends
<1>6. failed \subseteq failed'
  BY DEF Expire, RedisFails
<1>7. clock # Never /\ clock \in Windows
  BY <1>1 DEF Types, Windows, Never, MiddlewareAssumption
<1>8. \/ counter' = [counter EXCEPT ![k].expiry = clock]
      \/ counter' = counter /\ k \in failed'
  BY <1>2 DEF Expire, RedisFails
<1>9. /\ counter'[k].count = counter[k].count
      /\ \A l \in Keys : l # k => counter'[l] = counter[l]
      /\ counter'[k].expiry # Never \/ (k \in failed' /\ counter' = counter)
  BY <1>1, <1>7, <1>8, CounterTypes
<1> HIDE DEF k
<1>10. QED
  BY <1>1, <1>2, <1>5, <1>6, <1>9, StopPending

LEMMA IncrFailsKeeps ==
  ASSUME IInv, MiddlewareAssumption, NEW q \in Requests, RedisFails(q), request[q].at = "incr"
  PROVE  NoneCountedIsNoKey' /\ ExpirePending' /\ NoKeyForgotten'
<1> DEFINE k == request[q].key
<1>1. Types /\ k \in Keys
  BY DEF IInv, Types, Request
<1>2. request' = [request EXCEPT ![q].at = "raised"] /\ failed' = failed \cup {k}
  BY DEF RedisFails, Moves
<1>3. \A o \in Requests, l \in Keys : Pends(o, l)' <=> Pends(o, l)
  BY <1>1, <1>2 DEF Pends, Types, Request
<1>4. counter' = counter \/ CountUp(k)
  BY DEF RedisFails
<1> HIDE DEF k
<1>5. counter[k].count \in Nat
  BY <1>1, CounterTypes
<1>6. \A l \in Keys : /\ l # k => counter'[l] = counter[l]
                      /\ counter'[l].expiry = counter[l].expiry
                      /\ counter'[l] = counter[l] \/ counter'[l].count > 0
                      /\ Exists(l) => Exists(l)'
  BY <1>1, <1>4, <1>5, CounterTypes DEF Exists
<1>7. NoneCountedIsNoKey'
  BY <1>6 DEF IInv, NoneCountedIsNoKey
<1>8. ExpirePending'
  BY <1>3, <1>6 DEF IInv, ExpirePending
<1>9. NoKeyForgotten'
  <2>1. SUFFICES ASSUME NEW l \in Keys, Exists(l)', counter'[l].expiry = Never
                 PROVE  l \in failed' \/ \E o \in Requests : Pends(o, l)'
    BY DEF NoKeyForgotten, Pends
  <2>2. CASE l = k
    BY <1>2, <2>2
  <2>3. CASE l # k
    BY <1>2, <1>3, <1>6, <2>1, <2>3 DEF IInv, NoKeyForgotten, Pends, Exists
  <2>4. QED
    BY <2>2, <2>3
<1>10. QED
  BY <1>7, <1>8, <1>9

LEMMA KeyExpiresKeeps ==
  ASSUME IInv, MiddlewareAssumption, NEW k \in Keys, KeyExpires(k)
  PROVE  NoneCountedIsNoKey' /\ ExpirePending' /\ NoKeyForgotten'
<1>1. Types /\ NoKey.count = 0
  BY DEF IInv, NoKey
<1>2. /\ counter'[k] = NoKey /\ \A l \in Keys : l # k => counter'[l] = counter[l]
      /\ failed' = failed /\ counter[k].expiry # Never
  BY <1>1 DEF KeyExpires, Types
<1>3. \A o \in Requests, l \in Keys : Pends(o, l)' <=> Pends(o, l)
  BY DEF KeyExpires, Pends
<1>4. \A o \in Requests : ~Pends(o, k)
  BY <1>2 DEF IInv, ExpirePending
<1>5. NoneCountedIsNoKey'
  BY <1>2 DEF IInv, NoneCountedIsNoKey
<1>6. ExpirePending'
  BY <1>2, <1>3, <1>4 DEF IInv, ExpirePending, Exists
<1>7. NoKeyForgotten'
  BY <1>1, <1>2, <1>3 DEF IInv, NoKeyForgotten, Exists, Pends
<1>8. QED
  BY <1>5, <1>6, <1>7

-----------------------------------------------------------------------------

LEMMA InvStep ==
  ASSUME IInv, MiddlewareAssumption, [Next]_vars
  PROVE  IInv'
<1>1. Types
  BY DEF IInv
<1>2. CASE UNCHANGED vars
  BY <1>2 DEF vars, IInv, Types, NoneCountedIsNoKey, ExpirePending, NoKeyForgotten, Exists, Pends
<1>3. CASE Next
  <2>1. Types'
    BY <1>1, <1>3, TypesStep
  <2>2. CASE NextWindow
    BY <2>1, <2>2, CountersKept DEF IInv, NextWindow, Pends
  <2>3. CASE \E k \in Keys : KeyExpires(k)
    BY <2>1, <2>3, KeyExpiresKeeps DEF IInv
  <2>4. ASSUME NEW q \in Requests, Incr(q) \/ Expire(q) \/ RedisFails(q)
        PROVE  IInv'
    <3>1. RedisFails(q) => request[q].at \in {"incr", "expire"}
      BY DEF RedisFails
    <3>2. QED
      BY <2>1, <2>4, <3>1, IncrKeeps, ExpireKeeps, IncrFailsKeeps DEF IInv
  <2>5. ASSUME NEW q \in Requests,
               \/ ArriveExempt(q) \/ Arrive(q) \/ Decide(q) \/ Answer(q) \/ EndpointRaises(q)
               \/ AuditAndRespond(q) \/ AuditFails(q) \/ ServerError(q)
        PROVE  IInv'
    <3>1. counter' = counter /\ failed' = failed /\ request[q].at # "expire"
      BY <2>5 DEF ArriveExempt, Arrive, Decide, Answer, EndpointRaises, AuditAndRespond,
                  AuditFails, ServerError
    <3>2. request[q] \in Request
      BY <1>1 DEF Types
    <3>3. PICK r : r.at # "expire" /\ request' = [request EXCEPT ![q] = r]
      BY <2>5, <3>2 DEF ArriveExempt, Arrive, Decide, Answer, EndpointRaises, AuditAndRespond,
                        AuditFails, ServerError, Moves, Request
    <3>4. \A o \in Requests, k \in Keys : Pends(o, k)' <=> Pends(o, k)
      BY <1>1, <3>1, <3>3, NothingPends
    <3>5. QED
      BY <2>1, <3>1, <3>4, CountersKept DEF IInv
  <2>6. QED
    BY <1>3, <2>2, <2>3, <2>4, <2>5 DEF Next
<1>4. QED
  BY <1>2, <1>3

LEMMA InitOK ==
  ASSUME MiddlewareAssumption, Init
  PROVE  IInv
<1>1. 0 \in Windows
  BY DEF Windows, MiddlewareAssumption
<1>2. \A i \in Identities : [at |-> "new", key |-> <<i, 0>>, count |-> 0,
                             status |-> "none", secured |-> FALSE] \in Request
  BY <1>1 DEF Request, Keys
<1>3. request \in [Requests -> Request] /\ \A q \in Requests : request[q].at = "new"
  BY <1>2 DEF Init
<1>4. Types
  BY <1>1, <1>3 DEF Init, Types, NoKey
<1>5. NoneCountedIsNoKey /\ ExpirePending /\ NoKeyForgotten
  BY <1>3 DEF Init, NoneCountedIsNoKey, ExpirePending, NoKeyForgotten, Exists, Pends, NoKey
<1>6. QED
  BY <1>4, <1>5 DEF IInv

LEMMA MiddlewareInvariance == Spec => []IInv
<1>1. Init => IInv
  BY MiddlewareAssumption, InitOK
<1>2. IInv /\ [Next]_vars => IInv'
  BY MiddlewareAssumption, InvStep
<1>3. QED
  BY <1>1, <1>2, PTL DEF Spec

\* Every variable keeps its type; EXPIRE never meets a key that is gone, which would give
\* an expiry to none.
THEOREM CountersTyped == Spec => []TypeOK
<1>1. IInv => TypeOK
  BY DEF IInv, Types, NoneCountedIsNoKey, TypeOK
<1>2. QED
  BY <1>1, MiddlewareInvariance, PTL

\* A key without expiry belongs to a request that is about to set it, or to a command that
\* failed, although INCR and EXPIRE are two calls (app/core/rate_limit.py:30).
THEOREM OnlyFailuresForget == Spec => []NoKeyForgotten
<1>1. IInv => NoKeyForgotten
  BY DEF IInv
<1>2. QED
  BY <1>1, MiddlewareInvariance, PTL

-----------------------------------------------------------------------------
(* The limit: who passes was granted it.                                    *)

LEMMA Sizes ==
  ASSUME Types, NEW k \in Keys
  PROVE  counter[k].count \in Nat /\ created[k] \in Nat /\ passed[k] \in Nat
BY DEF Types

\* A life grants no more than the limit, and a request more as long as it is not reached.
LEMMA GrantSteps ==
  ASSUME MiddlewareAssumption, NEW n \in Nat, NEW c \in Nat, n > 0 => c > 0
  PROVE  /\ Grant(n, c) \in Nat
         /\ Grant(n, c) <= Grant(0, c) /\ Grant(0, c) = Limit * c /\ Grant(0, c) \in Nat
         /\ LET d == IF n = 0 THEN c + 1 ELSE c
            IN  /\ Grant(n + 1, d) \in Nat /\ Grant(n + 1, d) >= Grant(n, c)
                /\ n + 1 <= Limit => Grant(n + 1, d) = Grant(n, c) + 1
<1>1. Limit \in Nat /\ 1 <= Limit
  BY DEF MiddlewareAssumption
<1>2. Limit * c \in Nat
  BY <1>1
<1>3. Grant(0, c) = Limit * c
  BY DEF Grant
<1>4. CASE n = 0
  <2>1. Grant(n + 1, c + 1) = Limit * c + 1
    BY <1>1, <1>4 DEF Grant
  <2>2. QED
    BY <1>1, <1>2, <1>3, <1>4, <2>1
<1>5. CASE n > 0
  <2>1. PICK base \in Nat : base = Limit * (c - 1) /\ Limit * c = base + Limit
    <3>1. c - 1 \in Nat
      BY <1>5
    <3>2. Limit * (c - 1) \in Nat /\ Limit * c = Limit * (c - 1) + Limit
      BY <1>1, <3>1
    <3>3. QED
      BY <3>2
  <2>2. Grant(n, c) = base + (IF n <= Limit THEN n ELSE Limit)
    BY <1>5, <2>1 DEF Grant
  <2>3. Grant(n + 1, c) = base + (IF n + 1 <= Limit THEN n + 1 ELSE Limit)
    BY <1>5, <2>1 DEF Grant
  <2>4. QED
    BY <1>1, <1>3, <1>5, <2>1, <2>2, <2>3
<1>6. QED
  BY <1>4, <1>5

\* Counting up never takes back what was granted.
LEMMA CountUpGrants ==
  ASSUME Types, MiddlewareAssumption, NEW k \in Keys, Exists(k) => created[k] > 0, CountUp(k)
  PROVE  /\ created'[k] > 0
         /\ Granted(k)' >= Granted(k)
         /\ counter[k].count + 1 <= Limit => Granted(k)' = Granted(k) + 1
<1>1. /\ counter'[k].count = counter[k].count + 1
      /\ created'[k] = IF Exists(k) THEN created[k] ELSE created[k] + 1
  BY CounterTypes DEF CountUp, Types
<1>2. Exists(k) <=> counter[k].count # 0
  BY Sizes DEF Exists
<1>3. counter[k].count > 0 => created[k] > 0
  BY DEF Exists
<1>4. created'[k] > 0
  BY <1>1, <1>2, Sizes DEF Exists
<1> DEFINE n == counter[k].count
           c == created[k]
           d == IF n = 0 THEN c + 1 ELSE c
<1>5. Granted(k) = Grant(n, c) /\ Granted(k)' = Grant(n + 1, d)
  BY <1>1, <1>2 DEF Granted
<1>6. n \in Nat /\ c \in Nat /\ (n > 0 => c > 0)
  BY <1>3, Sizes
<1>7. /\ Grant(n + 1, d) >= Grant(n, c)
      /\ n + 1 <= Limit => Grant(n + 1, d) = Grant(n, c) + 1
  <2> HIDE DEF n, c
  <2>1. QED
    BY <1>6, GrantSteps
<1>8. QED
  BY <1>4, <1>5, <1>7

\* Nobody new holds a grant, nobody passes, and no grant is taken back.
LEMMA CoverKept ==
  ASSUME Types, Types', MiddlewareAssumption, NEW k \in Keys, Covered(k),
         Holding(k)' \subseteq Holding(k), passed'[k] = passed[k],
         Exists(k)' => created'[k] > 0, Granted(k)' >= Granted(k)
  PROVE  Covered(k)'
<1>1. /\ IsFiniteSet(Holding(k)) /\ passed[k] + Cardinality(Holding(k)) <= Granted(k)
      /\ passed[k] \in Nat
  BY Sizes DEF Covered
<1>2. IsFiniteSet(Holding(k)') /\ Cardinality(Holding(k)') <= Cardinality(Holding(k))
  BY <1>1, FS_Subset
<1>3. Cardinality(Holding(k)) \in Nat /\ Cardinality(Holding(k)') \in Nat
  BY <1>1, <1>2, FS_CardinalityType
<1>4. Granted(k) \in Nat
  BY Sizes, GrantSteps DEF Covered, Exists, Granted
<1>5. Granted(k)' \in Nat
  <2>1. counter'[k].count \in Nat /\ created'[k] \in Nat /\ (counter'[k].count > 0 => created'[k] > 0)
    BY DEF Types, Exists
  <2>2. QED
    BY <2>1, GrantSteps DEF Granted
<1>6. passed'[k] + Cardinality(Holding(k)') <= Granted(k)'
  BY <1>1, <1>2, <1>3, <1>4, <1>5
<1>7. QED
  BY <1>2, <1>6 DEF Covered

\* A request that moves on without being counted holds no grant it did not hold.
LEMMA HoldersLeave ==
  ASSUME Types, NEW q \in Requests, NEW r, request' = [request EXCEPT ![q] = r], NEW k \in Keys,
         r.at \notin {"expire", "decide"} \/ (r.at = "decide" /\ request[q].at = "expire"
                                               /\ r.key = request[q].key
                                               /\ r.count = request[q].count)
  PROVE  Holding(k)' \subseteq Holding(k)
<1>1. \A o \in Requests : request'[o] = IF o = q THEN r ELSE request[o]
  BY DEF Types
<1>2. QED
  BY <1>1 DEF Holding

LEMMA IncrCovers ==
  ASSUME IInv, Types', MiddlewareAssumption, NEW q \in Requests, Incr(q),
         NEW k \in Keys, Covered(k)
  PROVE  Covered(k)'
<1> DEFINE key == request[q].key
           n == counter[key].count + 1
           at == IF n = 1 THEN "expire" ELSE "decide"
<1>1. Types /\ key \in Keys
  BY DEF IInv, Types, Request
<1>2. CountUp(key) /\ UNCHANGED passed /\ request[q].at = "incr"
      /\ request' = [request EXCEPT ![q] = [request[q] EXCEPT !.count = n, !.at = at]]
  BY DEF Incr
<1>3. /\ \A o \in Requests : o # q => request'[o] = request[o]
      /\ request'[q].key = key /\ request'[q].count = n
  BY <1>1, <1>2 DEF Types, Request
<1> HIDE DEF at
<1>4. /\ Holding(k)' \subseteq Holding(k) \cup {q}
      /\ key # k \/ ~(n <= Limit) => Holding(k)' \subseteq Holding(k)
  BY <1>3 DEF Holding
<1>5. CASE key # k
  <2>1. counter'[k] = counter[k] /\ created'[k] = created[k]
    BY <1>1, <1>2, <1>5 DEF CountUp, Types
  <2>2. Granted(k)' = Granted(k) /\ (Exists(k)' => created'[k] > 0)
    BY <2>1 DEF Granted, Covered, Exists
  <2>3. Granted(k)' >= Granted(k)
    <3>1. Granted(k) \in Nat
      BY <1>1, Sizes, GrantSteps DEF Covered, Exists, Granted
    <3>2. QED
      BY <2>2, <3>1
  <2>4. QED
    BY <1>1, <1>2, <1>4, <1>5, <2>2, <2>3, CoverKept
<1>6. CASE key = k
  <2>1. /\ created'[k] > 0 /\ Granted(k)' >= Granted(k)
        /\ n <= Limit => Granted(k)' = Granted(k) + 1
    BY <1>1, <1>2, <1>6, CountUpGrants DEF Covered
  <2>2. CASE ~(n <= Limit)
    BY <1>1, <1>2, <1>4, <2>1, <2>2, CoverKept
  <2>3. CASE n <= Limit
    <3>1. /\ IsFiniteSet(Holding(k)) /\ passed[k] + Cardinality(Holding(k)) <= Granted(k)
          /\ passed[k] \in Nat /\ passed'[k] = passed[k]
      BY <1>1, <1>2, Sizes DEF Covered
    <3>2. IsFiniteSet(Holding(k)') /\ Cardinality(Holding(k)') <= Cardinality(Holding(k)) + 1
      BY <1>4, <3>1, GrownSize
    <3>3. Cardinality(Holding(k)) \in Nat /\ Cardinality(Holding(k)') \in Nat
      BY <3>1, <3>2, FS_CardinalityType
    <3>4. Granted(k) \in Nat
      BY <1>1, Sizes, GrantSteps DEF Covered, Exists, Granted
    <3>5. Granted(k)' = Granted(k) + 1
      BY <2>1, <2>3
    <3>6. passed'[k] + Cardinality(Holding(k)') <= Granted(k)'
      BY <3>1, <3>2, <3>3, <3>4, <3>5
    <3>7. QED
      BY <2>1, <3>2, <3>6 DEF Covered
  <2>4. QED
    BY <2>2, <2>3
<1>7. QED
  BY <1>5, <1>6

LEMMA DecideCovers ==
  ASSUME IInv, Types', MiddlewareAssumption, NEW q \in Requests, Decide(q),
         NEW k \in Keys, Covered(k)
  PROVE  Covered(k)'
<1> DEFINE key == request[q].key
<1>1. Types /\ key \in Keys /\ request[q] \in Request
  BY DEF IInv, Types, Request
<1>2. UNCHANGED <<counter, created>> /\ request[q].at = "decide"
  BY DEF Decide
<1>3. Granted(k)' = Granted(k) /\ Granted(k) \in Nat /\ (Exists(k)' => created'[k] > 0)
  BY <1>1, <1>2, Sizes, GrantSteps DEF Covered, Exists, Granted
<1>4. PICK at \in {"raised", "endpoint"} : request' = [request EXCEPT ![q] = [request[q] EXCEPT !.at = at]]
  BY DEF Decide, Moves
<1>5. Holding(k)' \subseteq Holding(k) /\ q \notin Holding(k)'
  <2>1. [request[q] EXCEPT !.at = at].at = at
    BY <1>1 DEF Request
  <2>2. Holding(k)' \subseteq Holding(k)
    BY <1>1, <1>4, <2>1, HoldersLeave
  <2>3. request'[q].at = at
    BY <1>1, <1>4, <2>1 DEF Types
  <2>4. QED
    BY <2>2, <2>3 DEF Holding
<1>6. CASE passed'[k] = passed[k]
  <2>1. Granted(k)' >= Granted(k)
    BY <1>3
  <2>2. QED
    BY <1>1, <1>3, <1>5, <1>6, <2>1, CoverKept
<1>7. CASE passed'[k] # passed[k]
  <2>0. passed' = [passed EXCEPT ![key] = passed[key] + 1] /\ ~(request[q].count > Limit)
    BY <1>7 DEF Decide
  <2>1. key = k /\ passed'[k] = passed[k] + 1 /\ request[q].count <= Limit
    <3>1. request[q].count \in Nat /\ Limit \in Nat
      BY <1>1 DEF Request, MiddlewareAssumption
    <3>2. key = k /\ passed'[k] = passed[k] + 1
      BY <1>1, <1>7, <2>0 DEF Types
    <3>3. QED
      BY <2>0, <3>1, <3>2
  <2>2. q \in Holding(k)
    BY <1>2, <2>1 DEF Holding
  <2>3. /\ IsFiniteSet(Holding(k)) /\ passed[k] + Cardinality(Holding(k)) <= Granted(k)
        /\ passed[k] \in Nat
    BY <1>1, Sizes DEF Covered
  <2>4. IsFiniteSet(Holding(k)') /\ Cardinality(Holding(k)') <= Cardinality(Holding(k)) - 1
    <3>1. Holding(k)' \subseteq Holding(k) \ {q}
      BY <1>5
    <3>2. QED
      BY <2>2, <2>3, <3>1, ShrunkSize
  <2>5. Cardinality(Holding(k)) \in Nat /\ Cardinality(Holding(k)') \in Nat
    BY <2>3, <2>4, FS_CardinalityType
  <2>6. passed'[k] + Cardinality(Holding(k)') <= Granted(k)'
    BY <1>3, <2>1, <2>3, <2>4, <2>5
  <2>7. QED
    BY <1>3, <2>4, <2>6 DEF Covered
<1>8. QED
  BY <1>6, <1>7

\* When a key expires, its life has granted no more than the limit.
LEMMA KeyExpiresCovers ==
  ASSUME IInv, Types', MiddlewareAssumption, NEW o \in Keys, KeyExpires(o),
         NEW k \in Keys, Covered(k)
  PROVE  Covered(k)'
<1>1. Types
  BY DEF IInv
<1>2. UNCHANGED <<request, created, passed>>
  BY DEF KeyExpires
<1>3. Holding(k)' = Holding(k) /\ passed'[k] = passed[k]
  BY <1>2 DEF Holding
<1>4. counter'[k] = counter[k] \/ counter'[k].count = 0
  BY <1>1 DEF KeyExpires, Types, NoKey
<1>5. /\ Granted(k) \in Nat /\ Granted(k) <= Grant(0, created[k]) /\ Grant(0, created[k]) \in Nat
  <2>1. /\ counter[k].count \in Nat /\ created[k] \in Nat
        /\ counter[k].count > 0 => created[k] > 0
    BY <1>1, Sizes DEF Covered, Exists
  <2>2. QED
    BY <2>1, GrantSteps DEF Granted
<1>6. Granted(k)' = Granted(k) \/ Granted(k)' = Grant(0, created[k])
  BY <1>2, <1>4 DEF Granted
<1>7. Granted(k)' >= Granted(k)
  BY <1>5, <1>6
<1>8. Exists(k)' => created'[k] > 0
  BY <1>2, <1>4 DEF Covered, Exists
<1>9. QED
  BY <1>1, <1>3, <1>7, <1>8, CoverKept

LEMMA RedisCovers ==
  ASSUME IInv, Types', MiddlewareAssumption, NEW q \in Requests, Expire(q) \/ RedisFails(q),
         NEW k \in Keys, Covered(k)
  PROVE  Covered(k)'
<1> DEFINE key == request[q].key
<1>1. Types /\ key \in Keys /\ request[q] \in Request
  BY DEF IInv, Types, Request
<1>2. /\ UNCHANGED passed
      /\ \/ UNCHANGED <<counter, created>>
         \/ CountUp(key)
         \/ counter' = [counter EXCEPT ![key].expiry = clock] /\ UNCHANGED created
  BY DEF Expire, RedisFails
<1>3. PICK at \in {"raised", "decide"} :
        /\ request' = [request EXCEPT ![q] = [request[q] EXCEPT !.at = at]]
        /\ at = "decide" => request[q].at = "expire"
  BY DEF Expire, RedisFails, Moves
<1>4. Holding(k)' \subseteq Holding(k)
  <2> DEFINE r == [request[q] EXCEPT !.at = at]
  <2>1. r.at = at /\ r.key = request[q].key /\ r.count = request[q].count
    BY <1>1 DEF Request
  <2>2. request' = [request EXCEPT ![q] = r]
    BY <1>3
  <2> HIDE DEF r
  <2>3. QED
    BY <1>1, <1>3, <2>1, <2>2, HoldersLeave
<1>5. Granted(k) \in Nat /\ (Exists(k) => created[k] > 0)
  BY <1>1, Sizes, GrantSteps DEF Covered, Exists, Granted
<1>6. CASE CountUp(key) /\ key = k
  BY <1>1, <1>2, <1>4, <1>5, <1>6, CountUpGrants, CoverKept
<1>7. CASE ~(CountUp(key) /\ key = k)
  <2>1. counter'[k].count = counter[k].count /\ created'[k] = created[k]
    BY <1>1, <1>2, <1>7, CounterTypes DEF CountUp, Types
  <2>2. Granted(k)' = Granted(k) /\ (Exists(k)' => created'[k] > 0)
    BY <1>5, <2>1 DEF Granted, Exists
  <2>3. Granted(k)' >= Granted(k)
    BY <1>5, <2>2
  <2>4. QED
    BY <1>1, <1>2, <1>4, <2>2, <2>3, CoverKept
<1>8. QED
  BY <1>6, <1>7

LEMMA GrantsStep ==
  ASSUME IInv, GrantsCover, MiddlewareAssumption, [Next]_vars
  PROVE  GrantsCover'
<1>1. Types /\ Types'
  BY InvStep DEF IInv
<1>2. SUFFICES ASSUME NEW k \in Keys, Covered(k) PROVE Covered(k)'
  BY DEF GrantsCover
<1>3. Granted(k) \in Nat /\ (Exists(k) => created[k] > 0)
  <2>1. /\ counter[k].count \in Nat /\ created[k] \in Nat
        /\ counter[k].count > 0 => created[k] > 0
    BY <1>1, <1>2, Sizes DEF Covered, Exists
  <2>2. QED
    BY <2>1, GrantSteps DEF Granted, Exists
<1>4. ASSUME UNCHANGED <<counter, created, passed>>, Holding(k)' \subseteq Holding(k)
      PROVE  Covered(k)'
  <2>1. Granted(k)' = Granted(k) /\ (Exists(k)' => created'[k] > 0) /\ passed'[k] = passed[k]
    BY <1>3, <1>4 DEF Granted, Exists
  <2>2. Granted(k)' >= Granted(k)
    BY <1>3, <2>1
  <2>3. QED
    BY <1>1, <1>2, <1>4, <2>1, <2>2, CoverKept
<1>5. CASE NextWindow \/ UNCHANGED vars
  BY <1>4, <1>5 DEF NextWindow, vars, Holding
<1>6. CASE \E o \in Keys : KeyExpires(o)
  BY <1>1, <1>2, <1>6, KeyExpiresCovers
<1>7. ASSUME NEW q \in Requests, Incr(q) \/ Expire(q) \/ RedisFails(q) \/ Decide(q)
      PROVE  Covered(k)'
  BY <1>1, <1>2, <1>7, IncrCovers, RedisCovers, DecideCovers
<1>8. ASSUME NEW q \in Requests,
             \/ ArriveExempt(q) \/ Arrive(q) \/ Answer(q) \/ EndpointRaises(q)
             \/ AuditAndRespond(q) \/ AuditFails(q) \/ ServerError(q)
      PROVE  Covered(k)'
  <2>1. UNCHANGED <<counter, created, passed>>
    BY <1>8 DEF ArriveExempt, Arrive, Answer, EndpointRaises, AuditAndRespond, AuditFails, ServerError
  <2>2. request[q] \in Request
    BY <1>1 DEF Types
  <2>3. PICK r : r.at \notin {"expire", "decide"} /\ request' = [request EXCEPT ![q] = r]
    BY <1>8, <2>2 DEF ArriveExempt, Arrive, Answer, EndpointRaises, AuditAndRespond, AuditFails,
                      ServerError, Moves, Request
  <2>4. Holding(k)' \subseteq Holding(k)
    BY <1>1, <2>3, HoldersLeave
  <2>5. QED
    BY <1>4, <2>1, <2>4
<1>9. QED
  BY <1>5, <1>6, <1>7, <1>8 DEF Next

\* Every request that the limiter let through, or still has to let through, was granted
\* its place by one of the lives of its key (app/core/rate_limit.py:29-34).
THEOREM GrantsKept == Spec => []GrantsCover
<1>1. Init => GrantsCover
  <2>1. SUFFICES ASSUME Init, NEW k \in Keys PROVE Covered(k)
    BY DEF GrantsCover
  <2>2. \A q \in Requests : request[q].at = "new"
    BY <2>1 DEF Init
  <2>3. Holding(k) = {}
    BY <2>2 DEF Holding
  <2>4. counter[k].count = 0 /\ created[k] = 0 /\ passed[k] = 0
    BY <2>1 DEF Init, NoKey
  <2>5. Granted(k) = Limit * 0 /\ Limit \in Nat
    BY <2>4, MiddlewareAssumption DEF Granted, Grant, MiddlewareAssumption
  <2>6. IsFiniteSet({}) /\ Cardinality({}) = 0
    BY FS_EmptySet
  <2>7. QED
    BY <2>3, <2>4, <2>5, <2>6 DEF Covered, Exists
<1>2. IInv /\ GrantsCover /\ [Next]_vars => GrantsCover'
  BY MiddlewareAssumption, GrantsStep
<1>3. QED
  BY <1>1, <1>2, MiddlewareInvariance, PTL DEF Spec

\* "fixed-window API rate limiting" (README.md:23): however requests, EXPIRE and expiry
\* interleave, an identity passes at most the limit for every time its key came into being.
THEOREM LimitHolds == Spec => []WindowLimit
<1>1. IInv /\ GrantsCover => WindowLimit
  <2>1. SUFFICES ASSUME Types, NEW k \in Keys, Covered(k) PROVE passed[k] <= Limit * created[k]
    BY DEF IInv, GrantsCover, WindowLimit
  <2>2. /\ counter[k].count \in Nat /\ created[k] \in Nat /\ passed[k] \in Nat
        /\ counter[k].count > 0 => created[k] > 0
    BY <2>1, Sizes DEF Covered, Exists
  <2>3. Granted(k) \in Nat /\ Granted(k) <= Limit * created[k] /\ Limit * created[k] \in Nat
    BY <2>2, GrantSteps, MiddlewareAssumption DEF Granted
  <2>4. Cardinality(Holding(k)) \in Nat /\ passed[k] + Cardinality(Holding(k)) <= Granted(k)
    BY <2>1, FS_CardinalityType DEF Covered
  <2>5. QED
    BY <2>2, <2>3, <2>4
<1>2. QED
  BY <1>1, MiddlewareInvariance, GrantsKept, PTL
=============================================================================
