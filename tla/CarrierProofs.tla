----------------------------- MODULE CarrierProofs -----------------------------
(***************************************************************************)
(* Proofs about who carries a run, how often, and what it writes: how many *)
(* findings late acknowledgement can cost, and why the status columns of a *)
(* campaign and its runs agree.  The proofs follow every carrier from hand *)
(* to hand, on top of the invariant that ControlPlaneProofs establishes.   *)
(***************************************************************************)
EXTENDS ControlPlaneProofs, SetSizes

-----------------------------------------------------------------------------
(* Sets that keep their size.                                               *)

\* At most one element of S was exchanged for another one.
Kept(S, T) == T \subseteq S \/ \E x \in S : \E y : T \subseteq (S \ {x}) \cup {y}

Single(S) == \A x, y \in S : x = y

LEMMA KeptSingle ==
  ASSUME NEW S, NEW T, Kept(S, T), Single(S)
  PROVE  Single(T)
BY DEF Kept, Single

LEMMA KeptSize ==
  ASSUME NEW S, NEW T, IsFiniteSet(S), Kept(S, T)
  PROVE  IsFiniteSet(T) /\ Cardinality(T) <= Cardinality(S)
<1>1. CASE T \subseteq S
  BY <1>1, FS_Subset
<1>2. CASE \E x \in S : \E y : T \subseteq (S \ {x}) \cup {y}
  <2>1. PICK x, y : x \in S /\ T \subseteq (S \ {x}) \cup {y}
    BY <1>2
  <2>2. /\ IsFiniteSet(S \ {x})
        /\ Cardinality(S \ {x}) = Cardinality(S) - 1
        /\ Cardinality(S) \in Nat
    BY <2>1, FS_RemoveElement, FS_CardinalityType
  <2>3. IsFiniteSet(T) /\ Cardinality(T) <= (Cardinality(S) - 1) + 1
    BY <2>1, <2>2, GrownSize
  <2>4. Cardinality(T) \in Nat
    BY <2>3, FS_CardinalityType
  <2>5. QED
    BY <2>2, <2>3, <2>4
<1>3. QED
  BY <1>1, <1>2 DEF Kept

-----------------------------------------------------------------------------
(* Copies of messages.                                                      *)

LEMMA CopiesIn ==
  ASSUME NEW bag, NEW r, NEW k
  PROVE  k \in Copies(bag, r) <=>
           \E m \in Message : m.run = r /\ \E i \in 1..bag[m] : k = <<m, i>>
BY DEF Copies

LEMMA PutCopy ==
  ASSUME NEW bag \in [Message -> Nat], NEW m \in Message, NEW r
  PROVE  /\ m.run # r => Copies(Put(bag, m), r) = Copies(bag, r)
         /\ Copies(Put(bag, m), r) \subseteq Copies(bag, r) \cup {<<m, bag[m] + 1>>}
<1>1. /\ Put(bag, m)[m] = bag[m] + 1
      /\ \A n \in Message : n # m => Put(bag, m)[n] = bag[n]
  BY DEF Put
<1>2. \A i \in 1..(bag[m] + 1) : i \in 1..bag[m] \/ i = bag[m] + 1
  OBVIOUS
<1>3. m.run # r => Copies(Put(bag, m), r) = Copies(bag, r)
  <2>1. SUFFICES ASSUME m.run # r, NEW k
                 PROVE  k \in Copies(Put(bag, m), r) <=> k \in Copies(bag, r)
    OBVIOUS
  <2>2. QED
    BY <1>1, <2>1, CopiesIn
<1>4. ASSUME NEW k \in Copies(Put(bag, m), r), k # <<m, bag[m] + 1>>
      PROVE  k \in Copies(bag, r)
  <2>1. PICK n \in Message : n.run = r /\ \E i \in 1..Put(bag, m)[n] : k = <<n, i>>
    BY <1>4, CopiesIn
  <2>2. \E i \in 1..bag[n] : k = <<n, i>>
    BY <1>1, <1>2, <1>4, <2>1
  <2>3. QED
    BY <2>1, <2>2, CopiesIn
<1>5. QED
  BY <1>3, <1>4

LEMMA RemoveCopy ==
  ASSUME NEW bag \in [Message -> Nat], NEW m \in Message, bag[m] > 0, NEW r
  PROVE  /\ Copies(Remove(bag, m), r) \subseteq Copies(bag, r)
         /\ m.run = r => /\ <<m, bag[m]>> \in Copies(bag, r)
                         /\ <<m, bag[m]>> \notin Copies(Remove(bag, m), r)
<1>1. /\ Remove(bag, m)[m] = bag[m] - 1
      /\ \A n \in Message : n # m => Remove(bag, m)[n] = bag[n]
  BY DEF Remove
<1>2. \A n \in Message : 1..Remove(bag, m)[n] \subseteq 1..bag[n]
  BY <1>1
<1>3. Copies(Remove(bag, m), r) \subseteq Copies(bag, r)
  BY <1>2, CopiesIn
<1>4. bag[m] \in 1..bag[m] /\ bag[m] \notin 1..Remove(bag, m)[m]
  BY <1>1
<1>5. ASSUME m.run = r PROVE <<m, bag[m]>> \in Copies(bag, r)
  BY <1>4, <1>5, CopiesIn
<1>6. <<m, bag[m]>> \notin Copies(Remove(bag, m), r)
  <2>1. SUFFICES ASSUME NEW n \in Message, NEW i \in 1..Remove(bag, m)[n], <<m, bag[m]>> = <<n, i>>
                 PROVE  FALSE
    BY CopiesIn
  <2>2. n = m /\ i = bag[m]
    BY <2>1
  <2>3. QED
    BY <1>4, <2>1, <2>2
<1>7. QED
  BY <1>3, <1>5, <1>6

-----------------------------------------------------------------------------
(* Carriers.                                                                *)

Slots(r, steps) == {w \in Workers : RunOf(w) = r /\ worker[w].pc \in steps}
Publishing(r) == {q \in Requests : ApiCarries(q, r)}
Dispatching(r) == {s \in Schedulers : SchedCarries(s, r)}

Gathered(q, a, w, p, s) ==
  ({"queue"} \X q) \cup ({"abandoned"} \X a) \cup ({"worker"} \X w)
    \cup ({"request"} \X p) \cup ({"scheduler"} \X s)

LEMMA CarriersGathered ==
  ASSUME NEW r, NEW steps
  PROVE  /\ Carriers(r, steps) =
              Gathered(Copies(queue, r), Copies(abandoned, r), Slots(r, steps),
                       Publishing(r), Dispatching(r))
         /\ Carriers(r, steps)' =
              Gathered(Copies(queue, r)', Copies(abandoned, r)', Slots(r, steps)',
                       Publishing(r)', Dispatching(r)')
BY DEF Carriers, Gathered, Slots, Publishing, Dispatching

LEMMA GatheredIn ==
  ASSUME NEW q, NEW a, NEW w, NEW p, NEW s, NEW x
  PROVE  x \in Gathered(q, a, w, p, s) <=>
           \/ \E k \in q : x = <<"queue", k>>
           \/ \E k \in a : x = <<"abandoned", k>>
           \/ \E k \in w : x = <<"worker", k>>
           \/ \E k \in p : x = <<"request", k>>
           \/ \E k \in s : x = <<"scheduler", k>>
BY DEF Gathered

\* Nobody new.
LEMMA GatheredFewer ==
  ASSUME NEW q, NEW a, NEW w, NEW p, NEW s, NEW q2, NEW a2, NEW w2, NEW p2, NEW s2,
         q2 \subseteq q, a2 \subseteq a, w2 \subseteq w, p2 \subseteq p, s2 \subseteq s
  PROVE  Gathered(q2, a2, w2, p2, s2) \subseteq Gathered(q, a, w, p, s)
BY DEF Gathered

\* Nobody acts on a run that is not committed yet.
LEMMA FreshUncarried ==
  ASSUME IndInv, NEW r \in Runs, run[r].status = "none", NEW steps, "idle" \notin steps
  PROVE  Carriers(r, steps) = {}
<1>1. \A m \in Message : m.run = r => queue[m] = 0 /\ abandoned[m] = 0
  <2>1. \A m \in Message : queue[m] \in Nat /\ abandoned[m] \in Nat
    BY DEF IndInv, TypeOK, BrokerTypeOK
  <2>2. \A m \in Message : m.run = r => ~(queue[m] + abandoned[m] > 0)
    BY DEF IndInv, MessagesHoldRuns, Opened
  <2>3. QED
    BY <2>1, <2>2
<1>2. Copies(queue, r) = {} /\ Copies(abandoned, r) = {}
  BY <1>1 DEF Copies
<1>3. Slots(r, steps) = {}
  BY DEF IndInv, MessagesHoldRuns, Slots, Busy, At, Opened
<1>4. Publishing(r) = {} /\ Dispatching(r) = {}
  BY DEF IndInv, RequestsHoldRows, ClaimsHold, Publishing, ApiCarries, Dispatching, SchedCarries, Opened
<1>5. QED
  BY <1>2, <1>3, <1>4, CarriersGathered DEF Gathered

\* What a step of requests, schedulers or the broker does: it changes no finding, and
\* hands the run on or opens it.
HandsOn(r, steps) ==
  \/ run'[r].findings = run[r].findings /\ Kept(Carriers(r, steps), Carriers(r, steps)')
  \/ /\ run[r].status = "none" /\ run'[r].findings = 0 /\ Carriers(r, steps) = {}
     /\ \E y : Carriers(r, steps)' \subseteq {y}

Fewer(S, T) == T \subseteq S
OneMore(S, T, y) == T \subseteq S \cup {y}
OneLess(S, T, x) == x \in S /\ T \subseteq S \ {x}

\* No part of the carriers gains one.
LEMMA PartsShrink ==
  ASSUME NEW r, NEW steps,
         Fewer(Copies(queue, r), Copies(queue, r)'),
         Fewer(Copies(abandoned, r), Copies(abandoned, r)'),
         Fewer(Slots(r, steps), Slots(r, steps)'),
         Fewer(Publishing(r), Publishing(r)'),
         Fewer(Dispatching(r), Dispatching(r)')
  PROVE  Fewer(Carriers(r, steps), Carriers(r, steps)') /\ Kept(Carriers(r, steps), Carriers(r, steps)')
BY CarriersGathered, GatheredFewer DEF Fewer, Kept

\* One carrier more.
LEMMA PartsGrow ==
  ASSUME NEW r, NEW steps, NEW k
  PROVE  /\ /\ OneMore(Copies(queue, r), Copies(queue, r)', k) /\ Fewer(Copies(abandoned, r), Copies(abandoned, r)')
            /\ Fewer(Slots(r, steps), Slots(r, steps)') /\ Fewer(Publishing(r), Publishing(r)')
            /\ Fewer(Dispatching(r), Dispatching(r)')
            => OneMore(Carriers(r, steps), Carriers(r, steps)', <<"queue", k>>)
         /\ /\ OneMore(Copies(abandoned, r), Copies(abandoned, r)', k) /\ Fewer(Copies(queue, r), Copies(queue, r)')
            /\ Fewer(Slots(r, steps), Slots(r, steps)') /\ Fewer(Publishing(r), Publishing(r)')
            /\ Fewer(Dispatching(r), Dispatching(r)')
            => OneMore(Carriers(r, steps), Carriers(r, steps)', <<"abandoned", k>>)
         /\ /\ OneMore(Slots(r, steps), Slots(r, steps)', k) /\ Fewer(Copies(queue, r), Copies(queue, r)')
            /\ Fewer(Copies(abandoned, r), Copies(abandoned, r)') /\ Fewer(Publishing(r), Publishing(r)')
            /\ Fewer(Dispatching(r), Dispatching(r)')
            => OneMore(Carriers(r, steps), Carriers(r, steps)', <<"worker", k>>)
         /\ /\ OneMore(Publishing(r), Publishing(r)', k) /\ Fewer(Copies(queue, r), Copies(queue, r)')
            /\ Fewer(Copies(abandoned, r), Copies(abandoned, r)') /\ Fewer(Slots(r, steps), Slots(r, steps)')
            /\ Fewer(Dispatching(r), Dispatching(r)')
            => OneMore(Carriers(r, steps), Carriers(r, steps)', <<"request", k>>)
         /\ /\ OneMore(Dispatching(r), Dispatching(r)', k) /\ Fewer(Copies(queue, r), Copies(queue, r)')
            /\ Fewer(Copies(abandoned, r), Copies(abandoned, r)') /\ Fewer(Slots(r, steps), Slots(r, steps)')
            /\ Fewer(Publishing(r), Publishing(r)')
            => OneMore(Carriers(r, steps), Carriers(r, steps)', <<"scheduler", k>>)
BY CarriersGathered, GatheredIn DEF Fewer, OneMore

\* Who is a carrier.
LEMMA PartsIn ==
  ASSUME NEW r, NEW steps, NEW k
  PROVE  /\ <<"queue", k>> \in Carriers(r, steps) <=> k \in Copies(queue, r)
         /\ <<"queue", k>> \in Carriers(r, steps)' <=> k \in Copies(queue, r)'
         /\ <<"abandoned", k>> \in Carriers(r, steps) <=> k \in Copies(abandoned, r)
         /\ <<"abandoned", k>> \in Carriers(r, steps)' <=> k \in Copies(abandoned, r)'
         /\ <<"worker", k>> \in Carriers(r, steps) <=> k \in Slots(r, steps)
         /\ <<"worker", k>> \in Carriers(r, steps)' <=> k \in Slots(r, steps)'
         /\ <<"request", k>> \in Carriers(r, steps) <=> k \in Publishing(r)
         /\ <<"request", k>> \in Carriers(r, steps)' <=> k \in Publishing(r)'
         /\ <<"scheduler", k>> \in Carriers(r, steps) <=> k \in Dispatching(r)
         /\ <<"scheduler", k>> \in Carriers(r, steps)' <=> k \in Dispatching(r)'
BY CarriersGathered, GatheredIn

\* One carrier hands the run on to another, or just drops it.
LEMMA Exchanged ==
  ASSUME NEW S, NEW T, NEW x, x \in S, x \notin T
  PROVE  /\ Fewer(S, T) => OneLess(S, T, x)
         /\ \A y : OneMore(S, T, y) => Kept(S, T)
BY DEF Fewer, OneLess, OneMore, Kept

LEMMA ApiHandsOn ==
  ASSUME IndInv, ApiNext, UNCHANGED worker, UNCHANGED sched,
         NEW r \in Runs, NEW steps, "idle" \notin steps
  PROVE  HandsOn(r, steps)
<1>1. /\ run \in [Runs -> RunRow] /\ queue \in [Message -> Nat]
      /\ ApiTypeOK /\ RequestsHoldRows
  BY DEF IndInv, TypeOK, StoreTypeOK, BrokerTypeOK
<1>2. Fewer(Slots(r, steps), Slots(r, steps)') /\ Fewer(Dispatching(r), Dispatching(r)')
  BY DEF Slots, Dispatching, RunOf, SchedCarries, Fewer
<1>3. UNCHANGED broker =>
        /\ Fewer(Copies(queue, r), Copies(queue, r)')
        /\ Fewer(Copies(abandoned, r), Copies(abandoned, r)')
  BY DEF broker, Fewer
<1>4. CASE \E c \in Campaigns, s \in Schedule : CreateCampaign(c, s)
  <2>1. UNCHANGED <<run, broker, api>>
    BY <1>4 DEF CreateCampaign
  <2>2. Fewer(Publishing(r), Publishing(r)')
    BY <2>1 DEF Publishing, ApiCarries, Fewer
  <2>3. QED
    BY <1>2, <1>3, <2>1, <2>2, PartsShrink DEF HandsOn
<1>5. ASSUME NEW q \in Requests,
             \/ \E c \in Campaigns, op \in {"cancel", "execute"} : ApiLoad(q, c, op)
             \/ ApiReject(q) \/ ApiCancel(q) \/ ApiFails(q)
      PROVE  HandsOn(r, steps)
  <2>1. UNCHANGED <<run, broker>>
    BY <1>5 DEF ApiLoad, ApiReject, ApiCancel, ApiFails, tables
  <2>2. PICK row : row.pc # "publish" /\ api' = [api EXCEPT ![q] = row]
    BY <1>5 DEF ApiLoad, ApiReject, ApiCancel, ApiFails, IdleRequest
  <2>3. Fewer(Publishing(r), Publishing(r)')
    BY <1>1, <2>2 DEF Publishing, ApiCarries, ApiTypeOK, Fewer
  <2>4. QED
    BY <1>2, <1>3, <2>1, <2>3, PartsShrink DEF HandsOn
<1>6. ASSUME NEW q \in Requests, NEW x \in ApiRuns, ApiExecute(q, x)
      PROVE  HandsOn(r, steps)
  <2>1. /\ UNCHANGED broker /\ x \in Runs /\ run[x].status = "none"
        /\ api' = [api EXCEPT ![q] = [api[q] EXCEPT !.pc = "publish", !.run = x]]
        /\ api[q].pc = "loaded"
        /\ run' = [run EXCEPT ![x] = NewRun(api[q].campaign)]
    BY <1>6 DEF ApiExecute, Executing, Fresh, Runs
  <2>2. Publishing(r)' = IF r = x THEN Publishing(r) \cup {q} ELSE Publishing(r)
    BY <1>1, <2>1 DEF Publishing, ApiCarries, ApiTypeOK
  <2>3. CASE r # x
    BY <1>1, <1>2, <1>3, <2>1, <2>2, <2>3, PartsShrink DEF HandsOn, Fewer
  <2>4. CASE r = x
    <3>1. Carriers(r, steps) = {}
      BY <2>1, <2>4, FreshUncarried
    <3>2. OneMore(Publishing(r), Publishing(r)', q)
      BY <2>2, <2>4 DEF OneMore
    <3>3. OneMore(Carriers(r, steps), Carriers(r, steps)', <<"request", q>>)
      BY <1>2, <1>3, <2>1, <3>2, PartsGrow
    <3>4. run'[r].findings = 0
      BY <1>1, <2>1, <2>4 DEF NewRun
    <3>5. QED
      BY <2>1, <2>4, <3>1, <3>3, <3>4 DEF HandsOn, OneMore
  <2>5. QED
    BY <2>3, <2>4
<1>7. ASSUME NEW q \in Requests, ApiPublish(q)
      PROVE  HandsOn(r, steps)
  <2> DEFINE m == FirstDelivery(api[q].run)
  <2>1. m \in Message /\ m.run = api[q].run /\ api[q].pc = "publish"
    BY <1>1, <1>7, MessageType DEF ApiPublish, RequestsHoldRows, Runs, FirstDelivery
  <2>2. /\ queue' = Put(queue, m) /\ UNCHANGED abandoned /\ UNCHANGED run
        /\ api' = [api EXCEPT ![q] = IdleRequest]
    BY <1>7 DEF ApiPublish, Publish, tables
  <2>3. Publishing(r)' = Publishing(r) \ {q} /\ (api[q].run = r => q \in Publishing(r))
    BY <1>1, <2>1, <2>2 DEF Publishing, ApiCarries, ApiTypeOK, IdleRequest
  <2> HIDE DEF m
  <2>4. /\ api[q].run # r => Copies(queue, r)' = Copies(queue, r)
        /\ Copies(queue, r)' \subseteq Copies(queue, r) \cup {<<m, queue[m] + 1>>}
    BY <1>1, <2>1, <2>2, PutCopy
  <2>5. Copies(abandoned, r)' = Copies(abandoned, r)
    BY <2>2
  <2>6. CASE api[q].run # r
    BY <1>2, <2>2, <2>3, <2>4, <2>5, <2>6, PartsShrink DEF HandsOn, Fewer
  <2>7. CASE api[q].run = r
    <3>1. <<"request", q>> \in Carriers(r, steps) /\ <<"request", q>> \notin Carriers(r, steps)'
      BY <2>3, <2>7, PartsIn
    <3>2. /\ OneMore(Copies(queue, r), Copies(queue, r)', <<m, queue[m] + 1>>)
          /\ Fewer(Copies(abandoned, r), Copies(abandoned, r)')
          /\ Fewer(Publishing(r), Publishing(r)')
      BY <2>3, <2>4, <2>5 DEF OneMore, Fewer
    <3>3. Kept(Carriers(r, steps), Carriers(r, steps)')
      BY <1>2, <3>1, <3>2, PartsGrow, Exchanged
    <3>4. QED
      BY <2>2, <3>3 DEF HandsOn
  <2>8. QED
    BY <2>6, <2>7
<1>8. QED
  BY <1>4, <1>5, <1>6, <1>7 DEF ApiNext

LEMMA SchedHandsOn ==
  ASSUME IndInv, SchedNext, UNCHANGED worker, UNCHANGED api,
         NEW r \in Runs, NEW steps, "idle" \notin steps
  PROVE  HandsOn(r, steps)
<1>1. /\ run \in [Runs -> RunRow] /\ queue \in [Message -> Nat]
      /\ sched \in [Schedulers -> [pc : {"down", "idle", "claiming", "dispatching"},
                                   batch : SUBSET Campaigns, pending : SUBSET SchedRuns]]
  BY DEF IndInv, TypeOK, StoreTypeOK, BrokerTypeOK, SchedTypeOK
<1>2. Fewer(Slots(r, steps), Slots(r, steps)') /\ Fewer(Publishing(r), Publishing(r)')
  BY DEF Slots, Publishing, RunOf, ApiCarries, Fewer
<1>3. UNCHANGED broker =>
        /\ Fewer(Copies(queue, r), Copies(queue, r)')
        /\ Fewer(Copies(abandoned, r), Copies(abandoned, r)')
  BY DEF broker, Fewer
<1>4. CASE \E c \in Campaigns : ClockTick(c)
  <2>1. UNCHANGED <<run, broker, sched>>
    BY <1>4 DEF ClockTick
  <2>2. Fewer(Dispatching(r), Dispatching(r)')
    BY <2>1 DEF Dispatching, SchedCarries, Fewer
  <2>3. QED
    BY <1>2, <1>3, <2>1, <2>2, PartsShrink DEF HandsOn
<1>5. ASSUME NEW s \in Schedulers,
             \/ SchedBoot(s) \/ SchedClaimFails(s) \/ SchedDispatchFails(s) \/ SchedCrash(s)
             \/ \E batch \in SUBSET Campaigns : SchedSelect(s, batch)
      PROVE  HandsOn(r, steps)
  <2>1. UNCHANGED <<run, broker>>
    BY <1>5 DEF SchedBoot, SchedClaimFails, SchedDispatchFails, SchedCrash, SchedSelect, tables
  <2>2. PICK row : row.pending = {} /\ sched' = [sched EXCEPT ![s] = row]
    BY <1>5 DEF SchedBoot, SchedClaimFails, SchedDispatchFails, SchedCrash, SchedSelect, Scheduled
  <2>3. Fewer(Dispatching(r), Dispatching(r)')
    BY <1>1, <2>2 DEF Dispatching, SchedCarries, Fewer
  <2>4. QED
    BY <1>2, <1>3, <2>1, <2>3, PartsShrink DEF HandsOn
<1>6. ASSUME NEW s \in Schedulers, NEW open \in Openings(sched[s].batch), SchedCommit(s, open)
      PROVE  HandsOn(r, steps)
  <2> DEFINE opened == {open[c] : c \in sched[s].batch}
  <2>1. UNCHANGED broker /\ sched' = [sched EXCEPT ![s] = Scheduled("dispatching", {}, opened)]
    BY <1>6 DEF SchedCommit
  <2>2. \A t \in Schedulers : t # s => sched'[t] = sched[t]
    BY <1>1, <2>1
  <2>3. sched'[s].pending = opened
    BY <1>1, <2>1 DEF Scheduled
  <2>4. CASE r \notin opened
    <3>1. run'[r] = run[r]
      BY <1>6, <2>4 DEF SchedCommit
    <3>2. Fewer(Dispatching(r), Dispatching(r)')
      BY <2>2, <2>3, <2>4 DEF Dispatching, SchedCarries, Fewer
    <3>3. QED
      BY <1>2, <1>3, <2>1, <3>1, <3>2, PartsShrink DEF HandsOn
  <2>5. CASE r \in opened
    <3>1. PICK c \in sched[s].batch : open[c] = r
      BY <2>5
    <3>2. run[r].status = "none"
      BY <3>1 DEF Openings, Fresh
    <3>3. Carriers(r, steps) = {}
      BY <3>2, FreshUncarried
    <3>4. OneMore(Dispatching(r), Dispatching(r)', s)
      BY <2>2 DEF Dispatching, SchedCarries, OneMore
    <3>5. OneMore(Carriers(r, steps), Carriers(r, steps)', <<"scheduler", s>>)
      BY <1>2, <1>3, <2>1, <3>4, PartsGrow
    <3>6. run'[r] = NewRun(CHOOSE d \in sched[s].batch : open[d] = r)
      BY <1>6, <3>1 DEF SchedCommit
    <3>7. run'[r].findings = 0
      BY <3>6 DEF NewRun
    <3>8. QED
      BY <3>2, <3>3, <3>5, <3>7 DEF HandsOn, OneMore
  <2>6. QED
    BY <2>4, <2>5
<1>7. ASSUME NEW s \in Schedulers, NEW x \in SchedRuns, SchedDispatch(s, x)
      PROVE  HandsOn(r, steps)
  <2> DEFINE m == FirstDelivery(x)
  <2>1. m \in Message /\ m.run = x
    BY MessageType DEF Runs, FirstDelivery
  <2>2. /\ queue' = Put(queue, m) /\ UNCHANGED abandoned /\ UNCHANGED run
        /\ x \in sched[s].pending
        /\ \A t \in Schedulers : t # s => sched'[t] = sched[t]
    BY <1>1, <1>7 DEF SchedDispatch, Publish, tables
  <2>3. sched'[s].pending = sched[s].pending \ {x}
    BY <1>1, <1>7 DEF SchedDispatch, Scheduled
  <2>4. /\ Fewer(Dispatching(r), Dispatching(r)')
        /\ x = r => s \in Dispatching(r) /\ s \notin Dispatching(r)'
    BY <2>2, <2>3 DEF Dispatching, SchedCarries, Fewer
  <2> HIDE DEF m
  <2>5. /\ x # r => Copies(queue, r)' = Copies(queue, r)
        /\ Copies(queue, r)' \subseteq Copies(queue, r) \cup {<<m, queue[m] + 1>>}
    BY <1>1, <2>1, <2>2, PutCopy
  <2>6. Fewer(Copies(abandoned, r), Copies(abandoned, r)')
    BY <2>2 DEF Fewer
  <2>7. CASE x # r
    BY <1>2, <2>2, <2>4, <2>5, <2>6, <2>7, PartsShrink DEF HandsOn, Fewer
  <2>8. CASE x = r
    <3>1. <<"scheduler", s>> \in Carriers(r, steps) /\ <<"scheduler", s>> \notin Carriers(r, steps)'
      BY <2>4, <2>8, PartsIn
    <3>2. OneMore(Copies(queue, r), Copies(queue, r)', <<m, queue[m] + 1>>)
      BY <2>5 DEF OneMore
    <3>3. Kept(Carriers(r, steps), Carriers(r, steps)')
      BY <1>2, <2>4, <2>6, <3>1, <3>2, PartsGrow, Exchanged
    <3>4. QED
      BY <2>2, <3>3 DEF HandsOn
  <2>9. QED
    BY <2>7, <2>8
<1>8. QED
  BY <1>4, <1>5, <1>6, <1>7 DEF SchedNext

LEMMA BrokerHandsOn ==
  ASSUME IndInv, BrokerNext, UNCHANGED <<api, sched, worker>>,
         NEW r \in Runs, NEW steps, "idle" \notin steps
  PROVE  HandsOn(r, steps)
<1>1. queue \in [Message -> Nat] /\ abandoned \in [Message -> Nat]
  BY DEF IndInv, TypeOK, BrokerTypeOK
<1>2. PICK m \in Message : Redeliver(m)
  BY DEF BrokerNext
<1>3. /\ abandoned[m] > 0 /\ abandoned' = Remove(abandoned, m)
      /\ queue' = Put(queue, m) /\ UNCHANGED run
  BY <1>2 DEF Redeliver, tables
<1>4. /\ Fewer(Slots(r, steps), Slots(r, steps)') /\ Fewer(Publishing(r), Publishing(r)')
      /\ Fewer(Dispatching(r), Dispatching(r)')
  BY DEF Slots, Publishing, Dispatching, RunOf, ApiCarries, SchedCarries, Fewer
<1>5. /\ Copies(abandoned, r)' \subseteq Copies(abandoned, r)
      /\ m.run = r => /\ <<m, abandoned[m]>> \in Copies(abandoned, r)
                      /\ <<m, abandoned[m]>> \notin Copies(abandoned, r)'
  BY <1>1, <1>3, RemoveCopy
<1>6. /\ m.run # r => Copies(queue, r)' = Copies(queue, r)
      /\ Copies(queue, r)' \subseteq Copies(queue, r) \cup {<<m, queue[m] + 1>>}
  BY <1>1, <1>3, PutCopy
<1>7. CASE m.run # r
  BY <1>3, <1>4, <1>5, <1>6, <1>7, PartsShrink DEF HandsOn, Fewer
<1>8. CASE m.run = r
  <2>1. /\ <<"abandoned", <<m, abandoned[m]>>>> \in Carriers(r, steps)
        /\ <<"abandoned", <<m, abandoned[m]>>>> \notin Carriers(r, steps)'
    BY <1>5, <1>8, PartsIn
  <2>2. OneMore(Copies(queue, r), Copies(queue, r)', <<m, queue[m] + 1>>)
    BY <1>6 DEF OneMore
  <2>3. Fewer(Copies(abandoned, r), Copies(abandoned, r)')
    BY <1>5 DEF Fewer
  <2>4. OneMore(Carriers(r, steps), Carriers(r, steps)', <<"queue", <<m, queue[m] + 1>>>>)
    BY <1>4, <2>2, <2>3, PartsGrow
  <2>5. QED
    BY <1>3, <2>1, <2>4, Exchanged DEF HandsOn
<1>9. QED
  BY <1>7, <1>8

-----------------------------------------------------------------------------
(* Workers.                                                                 *)

\* What the writes of a worker do to findings and to the rows of other runs.
LEMMA WritesFindings ==
  ASSUME run \in [Runs -> RunRow], NEW w, NEW r \in Runs
  PROVE  /\ UNCHANGED tables \/ MarkBoth(RunOf(w), "running") \/ WriteFailed(w) =>
              run'[r].findings = run[r].findings
         /\ MarkCompleted(RunOf(w)) =>
              run'[r].findings = IF r = RunOf(w) THEN run[r].findings + 1 ELSE run[r].findings
<1>1. run[r] \in RunRow
  OBVIOUS
<1>2. QED
  BY <1>1 DEF tables, MarkBoth, WriteFailed, MarkCompleted, WithFinding, RunRow

\* While no message moves, a slot becomes a carrier only by stepping into steps.
LEMMA SlotMoves ==
  ASSUME IndInv, UNCHANGED <<broker, api, sched>>, NEW w \in Workers, NEW r \in Runs, NEW steps,
         \A v \in Workers : v # w => worker'[v] = worker[v],
         worker'[w].msg = worker[w].msg \/ worker'[w] = IdleWorker,
         worker'[w].pc \in steps => worker[w].pc \in steps
  PROVE  Fewer(Carriers(r, steps), Carriers(r, steps)')
<1>1. /\ Fewer(Copies(queue, r), Copies(queue, r)')
      /\ Fewer(Copies(abandoned, r), Copies(abandoned, r)')
      /\ Fewer(Publishing(r), Publishing(r)') /\ Fewer(Dispatching(r), Dispatching(r)')
  BY DEF broker, Publishing, ApiCarries, Dispatching, SchedCarries, Fewer
<1>2. RunOf(w)' = r => RunOf(w) = r
  BY IdAssumption DEF RunOf, IdleWorker, NoMessage
<1>3. Fewer(Slots(r, steps), Slots(r, steps)')
  BY <1>2 DEF Slots, RunOf, Fewer
<1>4. QED
  BY <1>1, <1>3, PartsShrink

WorkerType == [pc : {"idle", "start", "fetch", "failing", "recording", "refresh", "retry", "done"},
               msg : Message \cup {NoMessage},
               error : {"none", "task", "db"},
               dirty : SUBSET Rows]

\* A handler that reads nothing again moves its slot alone, and holds both rows.
LEMMA UnreadSlot ==
  ASSUME worker \in [Workers -> WorkerType], NEW w \in Workers, HandleUnread(w)
  PROVE  /\ worker'[w].pc = "recording" /\ worker'[w].msg = worker[w].msg
         /\ worker'[w].error = "task" /\ worker'[w].dirty = Rows
         /\ \A v \in Workers : v # w => worker'[v] = worker[v]
<1>1. worker[w] \in WorkerType
  OBVIOUS
<1>2. worker'[w] = [worker[w] EXCEPT !.pc = "recording", !.error = "task", !.dirty = Rows]
  BY DEF HandleUnread
<1>3. \A v \in Workers : v # w => worker'[v] = worker[v]
  BY DEF HandleUnread
<1>4. QED
  BY <1>1, <1>2, <1>3 DEF WorkerType

\* The steps that leave the messages where they are.
Inward(w) ==
  \/ StartRun(w) \/ Complete(w) \/ FetchFails(w) \/ LoadFailed(w) \/ RecordFailure(w)
  \/ RefreshRun(w) \/ RetriesExhausted(w) \/ Ack(w)
  \/ \E applied \in BOOLEAN : StartFails(w, applied) \/ RecordFailureFails(w, applied)
  \/ \E error \in {"db", "task"}, applied \in BOOLEAN : CompleteFails(w, error, applied)
  \/ LateTimeLimit(w) \/ RefreshFails(w) \/ RetryPublishFails(w) \/ ChildLost(w)

LEMMA InwardMoves ==
  ASSUME worker \in [Workers -> WorkerType], NEW w \in Workers, Inward(w)
  PROVE  /\ UNCHANGED broker
         /\ \A v \in Workers : v # w => worker'[v] = worker[v]
         /\ worker'[w].msg = worker[w].msg \/ worker'[w] = IdleWorker
         /\ worker'[w].pc \in Acting => worker[w].pc \in Acting
         /\ ~RefreshFails(w) => (worker'[w].pc \in Unpaid => worker[w].pc \in Unpaid)
<1>1. UNCHANGED broker
  BY DEF Inward, StartRun, Complete, FetchFails, LoadFailed, RecordFailure, RefreshRun,
         RetriesExhausted, Ack, StartFails, CompleteFails, LateTimeLimit, RecordFailureFails, RefreshFails,
         RetryPublishFails, ChildLost
<1>3. \A v \in Workers : v # w => worker'[v] = worker[v]
  <2>1. CASE StartRun(w) \/ Complete(w) \/ RefreshRun(w) \/ RetriesExhausted(w) \/ RetryPublishFails(w)
    BY <2>1 DEF StartRun, Complete, RefreshRun, RetriesExhausted, RetryPublishFails, Goto
  <2>2. CASE \/ RefreshFails(w) \/ \E applied \in BOOLEAN : StartFails(w, applied)
             \/ \E error \in {"db", "task"}, applied \in BOOLEAN : CompleteFails(w, error, applied)
    BY <2>2 DEF RefreshFails, StartFails, CompleteFails, Raise
  <2>4. CASE FetchFails(w) \/ LateTimeLimit(w)
    BY <2>4 DEF FetchFails, LateTimeLimit, HandleUnread
  <2>3. CASE \/ LoadFailed(w) \/ RecordFailure(w) \/ Ack(w) \/ ChildLost(w)
             \/ \E applied \in BOOLEAN : RecordFailureFails(w, applied)
    BY <2>3 DEF LoadFailed, RecordFailure, RecordFailureFails, Ack, ChildLost
  <2>5. QED
    BY <2>1, <2>2, <2>3, <2>4 DEF Inward
<1>4. worker'[w].msg = worker[w].msg \/ worker'[w] = IdleWorker
  <2>0. worker[w] \in WorkerType
    OBVIOUS
  <2>1. CASE StartRun(w) \/ Complete(w) \/ RefreshRun(w) \/ RetriesExhausted(w) \/ RetryPublishFails(w)
    BY <2>0, <2>1 DEF StartRun, Complete, RefreshRun, RetriesExhausted, RetryPublishFails, Goto, WorkerType
  <2>2. CASE \/ RefreshFails(w) \/ \E applied \in BOOLEAN : StartFails(w, applied)
             \/ \E error \in {"db", "task"}, applied \in BOOLEAN : CompleteFails(w, error, applied)
    <3>1. \E pc, error : Raise(w, pc, error)
      BY <2>2 DEF RefreshFails, StartFails, CompleteFails
    <3>2. QED
      BY <2>0, <3>1 DEF Raise, WorkerType
  <2>3. CASE LoadFailed(w) \/ RecordFailure(w) \/ \E applied \in BOOLEAN : RecordFailureFails(w, applied)
    <3>1. CASE LoadFailed(w) \/ RecordFailure(w)
      <4>1. PICK pc, dirty : worker' = [worker EXCEPT ![w] = [worker[w] EXCEPT !.pc = pc, !.dirty = dirty]]
        BY <3>1 DEF LoadFailed, RecordFailure
      <4>2. QED
        BY <2>0, <4>1 DEF WorkerType
    <3>2. CASE \E applied \in BOOLEAN : RecordFailureFails(w, applied)
      BY <2>0, <3>2 DEF RecordFailureFails, WorkerType
    <3>3. QED
      BY <2>3, <3>1, <3>2
  <2>4. CASE Ack(w) \/ ChildLost(w)
    BY <2>4 DEF Ack, ChildLost
  <2>5. CASE FetchFails(w) \/ LateTimeLimit(w)
    BY <2>5, UnreadSlot DEF FetchFails, LateTimeLimit
  <2>6. QED
    BY <2>1, <2>2, <2>3, <2>4, <2>5 DEF Inward
<1>5. worker'[w].pc \in Acting => worker[w].pc \in Acting
  BY DEF Inward, StartRun, Complete, FetchFails, LoadFailed, RecordFailure, RefreshRun,
         RetriesExhausted, Ack, StartFails, CompleteFails, LateTimeLimit, RecordFailureFails, RefreshFails,
         RetryPublishFails, ChildLost, Goto, Raise, HandleUnread, WorkerType, At, Acting, IdleWorker
<1>6. ~RefreshFails(w) => (worker'[w].pc \in Unpaid => worker[w].pc \in Unpaid)
  BY DEF Inward, StartRun, Complete, FetchFails, LoadFailed, RecordFailure, RefreshRun,
         RetriesExhausted, Ack, StartFails, CompleteFails, LateTimeLimit, RecordFailureFails,
         RetryPublishFails, ChildLost, Goto, Raise, HandleUnread, WorkerType, At, Acting, Unpaid, IdleWorker
<1>7. QED
  BY <1>1, <1>3, <1>4, <1>5, <1>6

\* What a step leaves of the account of one run: at most one carrier, ...
Held(r) ==
  \/ r \in duplicated'
  \/ Kept(Carriers(r, Acting), Carriers(r, Acting)')
  \/ Carriers(r, Acting) = {} /\ \E y : Carriers(r, Acting)' \subseteq {y}

\* ... and no finding, written or to come, that a fault did not pay for.
Paid(r) ==
  LET U == Carriers(r, Unpaid) IN
  \/ run'[r].findings = run[r].findings /\ faults' >= faults /\ Kept(U, U')
  \/ run'[r].findings = run[r].findings + 1 /\ faults' >= faults /\ \E x : OneLess(U, U', x)
  \/ run'[r].findings = run[r].findings /\ faults' = faults + 1 /\ \E y : OneMore(U, U', y)
  \/ run'[r].findings = run[r].findings + 1 /\ faults' = faults + 1 /\ Fewer(U, U')
  \/ /\ run[r].status = "none" /\ run'[r].findings = 0 /\ faults' >= faults
     /\ U = {} /\ \E y : U' \subseteq {y}

LEMMA InwardAccount ==
  ASSUME IndInv, NEW w \in Workers, Inward(w), UNCHANGED <<api, sched>>, NEW r \in Runs
  PROVE  Held(r) /\ Paid(r)
<1>0. /\ worker \in [Workers -> WorkerType] /\ run \in [Runs -> RunRow]
      /\ faults \in Nat /\ run[r].findings \in Nat
  BY DEF IndInv, TypeOK, WorkerTypeOK, WorkerType, StoreTypeOK, RunRow
<1>1. /\ UNCHANGED broker
      /\ \A v \in Workers : v # w => worker'[v] = worker[v]
      /\ worker'[w].msg = worker[w].msg \/ worker'[w] = IdleWorker
      /\ worker'[w].pc \in Acting => worker[w].pc \in Acting
      /\ ~RefreshFails(w) => (worker'[w].pc \in Unpaid => worker[w].pc \in Unpaid)
  BY <1>0, InwardMoves
<1>2. Fewer(Carriers(r, Acting), Carriers(r, Acting)')
  BY <1>1, SlotMoves
<1>3. Held(r)
  BY <1>2 DEF Held, Fewer, Kept
<1>4. ASSUME ~RefreshFails(w) PROVE Fewer(Carriers(r, Unpaid), Carriers(r, Unpaid)')
  BY <1>1, <1>4, SlotMoves
<1>5. CASE Complete(w)
  <2>1. /\ MarkCompleted(RunOf(w)) /\ UNCHANGED faults /\ At(w, "fetch") /\ Goto(w, "refresh")
    BY <1>5 DEF Complete, history
  <2>2. ~RefreshFails(w)
    BY <2>1 DEF RefreshFails, At
  <2>3. run'[r].findings = IF r = RunOf(w) THEN run[r].findings + 1 ELSE run[r].findings
    BY <1>0, <2>1, WritesFindings
  <2>4. CASE r = RunOf(w)
    <3>1. w \in Slots(r, Unpaid) /\ w \notin Slots(r, Unpaid)'
      BY <1>0, <2>1, <2>4 DEF Slots, At, Goto, Unpaid, Acting, WorkerType
    <3>2. OneLess(Carriers(r, Unpaid), Carriers(r, Unpaid)', <<"worker", w>>)
      BY <1>4, <2>2, <3>1, PartsIn, Exchanged
    <3>3. QED
      BY <1>0, <1>3, <2>1, <2>3, <2>4, <3>2 DEF Paid
  <2>5. CASE r # RunOf(w)
    BY <1>0, <1>3, <1>4, <2>1, <2>2, <2>3, <2>5 DEF Paid, Fewer, Kept
  <2>6. QED
    BY <2>4, <2>5
<1>6. CASE LateTimeLimit(w) \/ \E error \in {"db", "task"} : CompleteFails(w, error, TRUE)
  <2>1. MarkCompleted(RunOf(w)) /\ faults' = faults + 1 /\ At(w, "fetch")
    BY <1>6 DEF CompleteFails, LateTimeLimit, Fault
  <2>2. ~RefreshFails(w)
    BY <2>1 DEF RefreshFails, At
  <2>3. run'[r].findings = run[r].findings + 1 \/ run'[r].findings = run[r].findings
    BY <1>0, <2>1, WritesFindings
  <2>4. faults' >= faults
    BY <1>0, <2>1
  <2>5. Fewer(Carriers(r, Unpaid), Carriers(r, Unpaid)') /\ Kept(Carriers(r, Unpaid), Carriers(r, Unpaid)')
    BY <1>4, <2>2 DEF Fewer, Kept
  <2>6. QED
    BY <1>3, <2>1, <2>3, <2>4, <2>5 DEF Paid
<1>7. CASE RefreshFails(w)
  <2>1. UNCHANGED tables /\ faults' = faults + 1
    BY <1>7 DEF RefreshFails, Fault
  <2>2. run'[r].findings = run[r].findings
    BY <1>0, <2>1, WritesFindings
  <2>3. worker'[w].msg = worker[w].msg
    BY <1>0, <1>7 DEF RefreshFails, Raise, WorkerType
  <2>4. OneMore(Slots(r, Unpaid), Slots(r, Unpaid)', w)
    BY <1>1 DEF Slots, RunOf, OneMore
  <2>5. /\ Fewer(Copies(queue, r), Copies(queue, r)')
        /\ Fewer(Copies(abandoned, r), Copies(abandoned, r)')
        /\ Fewer(Publishing(r), Publishing(r)') /\ Fewer(Dispatching(r), Dispatching(r)')
    BY <1>1 DEF broker, Publishing, ApiCarries, Dispatching, SchedCarries, Fewer
  <2>6. OneMore(Carriers(r, Unpaid), Carriers(r, Unpaid)', <<"worker", w>>)
    BY <2>4, <2>5, PartsGrow
  <2>7. QED
    BY <1>3, <2>1, <2>2, <2>6 DEF Paid
<1>8. CASE /\ ~Complete(w) /\ ~RefreshFails(w) /\ ~LateTimeLimit(w)
           /\ ~\E error \in {"db", "task"} : CompleteFails(w, error, TRUE)
  <2>1. UNCHANGED tables \/ MarkBoth(RunOf(w), "running") \/ WriteFailed(w)
    BY <1>8 DEF Inward, StartRun, FetchFails, LoadFailed, RecordFailure, RefreshRun,
         RetriesExhausted, Ack, StartFails, CompleteFails, RecordFailureFails,
         RetryPublishFails, ChildLost
  <2>2. run'[r].findings = run[r].findings
    BY <1>0, <2>1, WritesFindings
  <2>3. faults' = faults \/ faults' = faults + 1
    BY <1>8 DEF Inward, StartRun, FetchFails, LoadFailed, RecordFailure, RefreshRun,
         RetriesExhausted, Ack, StartFails, CompleteFails, RecordFailureFails,
         RetryPublishFails, ChildLost, history, Fault
  <2>4. faults' >= faults
    BY <1>0, <2>3
  <2>5. Kept(Carriers(r, Unpaid), Carriers(r, Unpaid)')
    BY <1>4, <1>8 DEF Fewer, Kept
  <2>6. QED
    BY <1>3, <2>2, <2>4, <2>5 DEF Paid
<1>9. QED
  BY <1>5, <1>6, <1>7, <1>8

\* A worker that takes a message carries its run in the message's place.
LEMMA TakeAccount ==
  ASSUME IndInv, NEW w \in Workers, NEW m \in Message, WorkerTake(w, m),
         UNCHANGED <<api, sched>>, NEW r \in Runs
  PROVE  Held(r) /\ Paid(r)
<1>0. /\ worker \in [Workers -> WorkerType] /\ queue \in [Message -> Nat] /\ faults \in Nat
      /\ UNCHANGED <<tables, history, abandoned>> /\ queue[m] > 0 /\ queue' = Remove(queue, m)
      /\ worker[w].pc = "idle"
  BY DEF IndInv, TypeOK, WorkerTypeOK, WorkerType, StoreTypeOK, BrokerTypeOK, WorkerTake, At
<1>1. /\ worker'[w].msg = m /\ worker'[w].pc = "start"
      /\ \A v \in Workers : v # w => worker'[v] = worker[v]
  BY <1>0 DEF WorkerTake, IdleWorker
<1>2. /\ Copies(queue, r)' \subseteq Copies(queue, r)
      /\ m.run = r => /\ <<m, queue[m]>> \in Copies(queue, r)
                      /\ <<m, queue[m]>> \notin Copies(queue, r)'
  BY <1>0, RemoveCopy
<1>3. /\ Fewer(Copies(queue, r), Copies(queue, r)')
      /\ Fewer(Copies(abandoned, r), Copies(abandoned, r)')
      /\ Fewer(Publishing(r), Publishing(r)') /\ Fewer(Dispatching(r), Dispatching(r)')
  BY <1>0, <1>2 DEF Publishing, ApiCarries, Dispatching, SchedCarries, Fewer
<1>4. ASSUME NEW steps, "idle" \notin steps
      PROVE  Kept(Carriers(r, steps), Carriers(r, steps)')
  <2>1. CASE m.run # r
    <3>1. Fewer(Slots(r, steps), Slots(r, steps)')
      BY <1>1, <2>1 DEF Slots, RunOf, Fewer
    <3>2. QED
      BY <1>3, <3>1, PartsShrink
  <2>2. CASE m.run = r
    <3>1. OneMore(Slots(r, steps), Slots(r, steps)', w)
      BY <1>1 DEF Slots, RunOf, OneMore
    <3>2. OneMore(Carriers(r, steps), Carriers(r, steps)', <<"worker", w>>)
      BY <1>3, <3>1, PartsGrow
    <3>3. /\ <<"queue", <<m, queue[m]>>>> \in Carriers(r, steps)
          /\ <<"queue", <<m, queue[m]>>>> \notin Carriers(r, steps)'
      BY <1>2, <2>2, PartsIn
    <3>4. QED
      BY <3>2, <3>3, Exchanged
  <2>3. QED
    BY <2>1, <2>2
<1>5. Kept(Carriers(r, Acting), Carriers(r, Acting)') /\ Kept(Carriers(r, Unpaid), Carriers(r, Unpaid)')
  BY <1>4 DEF Acting, Unpaid
<1>6. run'[r].findings = run[r].findings /\ faults' >= faults
  BY <1>0 DEF tables, history
<1>7. QED
  BY <1>5, <1>6 DEF Held, Paid

\* A retry: the slot hands the run to the copy it publishes.
LEMMA RetryAccount ==
  ASSUME IndInv, NEW w \in Workers, Retry(w), UNCHANGED <<api, sched>>, NEW r \in Runs
  PROVE  Held(r) /\ Paid(r)
<1> DEFINE m == [worker[w].msg EXCEPT !.retries = @ + 1]
<1>0. /\ worker \in [Workers -> WorkerType] /\ queue \in [Message -> Nat] /\ faults \in Nat
      /\ UNCHANGED <<tables, history, abandoned>> /\ queue' = Put(queue, m)
      /\ worker[w].pc = "retry" /\ Goto(w, "done")
  BY DEF IndInv, TypeOK, WorkerTypeOK, WorkerType, StoreTypeOK, BrokerTypeOK, Retry, At, Publish
<1>1. m \in Message /\ m.run = RunOf(w)
  <2>1. worker[w].msg \in Message /\ worker[w].msg.retries < MaxRetries
    BY <1>0 DEF IndInv, MessagesHoldRuns, Busy, At, Retry
  <2>2. m.run = RunOf(w)
    BY <2>1 DEF Message, RunOf
  <2>3. QED
    BY <2>1, <2>2, MessageType
<1> HIDE DEF m
<1>2. /\ worker'[w].msg = worker[w].msg /\ worker'[w].pc = "done"
      /\ \A v \in Workers : v # w => worker'[v] = worker[v]
  BY <1>0 DEF Goto, WorkerType
<1>3. /\ m.run # r => Copies(queue, r)' = Copies(queue, r)
      /\ Copies(queue, r)' \subseteq Copies(queue, r) \cup {<<m, queue[m] + 1>>}
  BY <1>0, <1>1, PutCopy
<1>4. /\ Fewer(Copies(abandoned, r), Copies(abandoned, r)')
      /\ Fewer(Publishing(r), Publishing(r)') /\ Fewer(Dispatching(r), Dispatching(r)')
  BY <1>0 DEF Publishing, ApiCarries, Dispatching, SchedCarries, Fewer
<1>5. ASSUME NEW steps, "retry" \in steps, "done" \notin steps
      PROVE  Kept(Carriers(r, steps), Carriers(r, steps)')
  <2>0. Fewer(Slots(r, steps), Slots(r, steps)')
    BY <1>2, <1>5 DEF Slots, RunOf, Fewer
  <2>1. CASE RunOf(w) # r
    <3>1. Fewer(Copies(queue, r), Copies(queue, r)')
      BY <1>1, <1>3, <2>1 DEF Fewer
    <3>2. QED
      BY <1>4, <2>0, <3>1, PartsShrink
  <2>2. CASE RunOf(w) = r
    <3>1. w \in Slots(r, steps) /\ w \notin Slots(r, steps)'
      BY <1>0, <1>2, <1>5, <2>2 DEF Slots, RunOf
    <3>2. <<"worker", w>> \in Carriers(r, steps) /\ <<"worker", w>> \notin Carriers(r, steps)'
      BY <3>1, PartsIn
    <3>3. OneMore(Copies(queue, r), Copies(queue, r)', <<m, queue[m] + 1>>)
      BY <1>3 DEF OneMore
    <3>4. OneMore(Carriers(r, steps), Carriers(r, steps)', <<"queue", <<m, queue[m] + 1>>>>)
      BY <1>4, <2>0, <3>3, PartsGrow
    <3>5. QED
      BY <3>2, <3>4, Exchanged
  <2>3. QED
    BY <2>1, <2>2
<1>6. Kept(Carriers(r, Acting), Carriers(r, Acting)') /\ Kept(Carriers(r, Unpaid), Carriers(r, Unpaid)')
  BY <1>5 DEF Acting, Unpaid
<1>7. run'[r].findings = run[r].findings /\ faults' >= faults
  BY <1>0 DEF tables, history
<1>8. QED
  BY <1>6, <1>7 DEF Held, Paid

\* A message that comes back: either its delivery was still acting on the run and is
\* gone, or the run counts as delivered twice.
LEMMA ReturnAccount ==
  ASSUME IndInv, NEW w \in Workers, WorkerCrash(w) \/ ConnectionLost(w),
         UNCHANGED <<api, sched>>, NEW r \in Runs
  PROVE  Held(r) /\ Paid(r)
<1> DEFINE m == worker[w].msg
<1>0. /\ worker \in [Workers -> WorkerType] /\ abandoned \in [Message -> Nat] /\ faults \in Nat
      /\ UNCHANGED <<tables, queue>> /\ abandoned' = Put(abandoned, m)
      /\ faults' = faults + 1 /\ worker[w].pc # "idle"
      /\ worker' = [worker EXCEPT ![w] = IdleWorker] \/ UNCHANGED worker
  BY DEF IndInv, TypeOK, WorkerTypeOK, WorkerType, StoreTypeOK, BrokerTypeOK, WorkerCrash,
         ConnectionLost, At, Busy, Fault
<1>1. m \in Message /\ m.run = RunOf(w)
  BY <1>0 DEF IndInv, MessagesHoldRuns, Busy, At, RunOf
<1>2. \/ WorkerCrash(w) /\ ~At(w, "done")
      \/ RunOf(w) \in duplicated'
  BY DEF WorkerCrash, ConnectionLost
<1> HIDE DEF m
<1>3. /\ m.run # r => Copies(abandoned, r)' = Copies(abandoned, r)
      /\ Copies(abandoned, r)' \subseteq Copies(abandoned, r) \cup {<<m, abandoned[m] + 1>>}
  BY <1>0, <1>1, PutCopy
<1>4. /\ Fewer(Copies(queue, r), Copies(queue, r)')
      /\ Fewer(Publishing(r), Publishing(r)') /\ Fewer(Dispatching(r), Dispatching(r)')
  BY <1>0 DEF Publishing, ApiCarries, Dispatching, SchedCarries, Fewer
<1>5. ASSUME NEW steps, "idle" \notin steps
      PROVE  /\ Fewer(Slots(r, steps), Slots(r, steps)')
             /\ m.run # r => Kept(Carriers(r, steps), Carriers(r, steps)')
             /\ OneMore(Carriers(r, steps), Carriers(r, steps)', <<"abandoned", <<m, abandoned[m] + 1>>>>)
  <2>1. Fewer(Slots(r, steps), Slots(r, steps)')
    BY <1>0, <1>5 DEF Slots, RunOf, Fewer, IdleWorker
  <2>2. OneMore(Copies(abandoned, r), Copies(abandoned, r)', <<m, abandoned[m] + 1>>)
    BY <1>3 DEF OneMore
  <2>3. m.run # r => Fewer(Copies(abandoned, r), Copies(abandoned, r)')
    BY <1>3 DEF Fewer
  <2>4. QED
    BY <1>4, <2>1, <2>2, <2>3, PartsShrink, PartsGrow
<1>6. Held(r)
  <2>1. CASE m.run # r
    BY <1>5, <2>1 DEF Held, Acting
  <2>2. CASE m.run = r /\ WorkerCrash(w) /\ ~At(w, "done")
    <3>1. worker[w].pc \in Acting /\ worker'[w].pc = "idle"
      BY <1>0, <2>2 DEF WorkerCrash, At, WorkerType, Acting, IdleWorker
    <3>2. w \in Slots(r, Acting) /\ w \notin Slots(r, Acting)'
      BY <1>1, <2>2, <3>1 DEF Slots, RunOf, Acting
    <3>3. <<"worker", w>> \in Carriers(r, Acting) /\ <<"worker", w>> \notin Carriers(r, Acting)'
      BY <3>2, PartsIn
    <3>4. OneMore(Carriers(r, Acting), Carriers(r, Acting)', <<"abandoned", <<m, abandoned[m] + 1>>>>)
      BY <1>5 DEF Acting
    <3>5. Kept(Carriers(r, Acting), Carriers(r, Acting)')
      BY <3>3, <3>4, Exchanged
    <3>6. QED
      BY <3>5 DEF Held
  <2>3. CASE m.run = r /\ RunOf(w) \in duplicated'
    BY <1>1, <2>3 DEF Held
  <2>4. QED
    BY <1>2, <2>1, <2>2, <2>3
<1>7. OneMore(Carriers(r, Unpaid), Carriers(r, Unpaid)', <<"abandoned", <<m, abandoned[m] + 1>>>>)
  BY <1>5 DEF Acting, Unpaid
<1>8. QED
  BY <1>0, <1>6, <1>7 DEF Paid, tables

\* Whoever steps, every account is kept.
LEMMA NextAccount ==
  ASSUME IndInv, Next, NEW r \in Runs
  PROVE  Held(r) /\ Paid(r)
<1>0. faults \in Nat
  BY DEF IndInv, TypeOK, StoreTypeOK
<1>1. "idle" \notin Acting /\ "idle" \notin Unpaid
  BY DEF Acting, Unpaid
<1>2. ASSUME HandsOn(r, Acting), HandsOn(r, Unpaid), faults' >= faults
      PROVE  Held(r) /\ Paid(r)
  BY <1>2 DEF HandsOn, Held, Paid
<1>3. CASE ApiNext /\ UNCHANGED <<sched, worker>>
  <2>1. faults' = faults \/ faults' = faults + 1
    BY <1>3 DEF ApiNext, CreateCampaign, ApiLoad, ApiReject, ApiCancel, ApiExecute, ApiPublish,
                ApiFails, history, Fault
  <2>2. HandsOn(r, Acting) /\ HandsOn(r, Unpaid)
    BY <1>1, <1>3, ApiHandsOn
  <2>3. QED
    BY <1>0, <1>2, <2>1, <2>2
<1>4. CASE SchedNext /\ UNCHANGED <<api, worker>>
  <2>1. faults' = faults \/ faults' = faults + 1
    BY <1>4 DEF SchedNext, ClockTick, SchedBoot, SchedSelect, SchedCommit, SchedClaimFails,
                SchedDispatch, SchedDispatchFails, SchedCrash, history, Fault
  <2>2. HandsOn(r, Acting) /\ HandsOn(r, Unpaid)
    BY <1>1, <1>4, SchedHandsOn
  <2>3. QED
    BY <1>0, <1>2, <2>1, <2>2
<1>5. CASE BrokerNext /\ UNCHANGED <<api, sched, worker>>
  <2>1. faults' = faults
    BY <1>5 DEF BrokerNext, Redeliver, history
  <2>2. HandsOn(r, Acting) /\ HandsOn(r, Unpaid)
    BY <1>1, <1>5, BrokerHandsOn
  <2>3. QED
    BY <1>0, <1>2, <2>1, <2>2
<1>6. CASE WorkerNext /\ UNCHANGED <<api, sched>>
  <2>1. \/ \E w \in Workers, m \in Message : WorkerTake(w, m)
        \/ \E w \in Workers : Inward(w) \/ Retry(w) \/ WorkerCrash(w) \/ ConnectionLost(w)
    BY <1>6 DEF WorkerNext, WorkerStep, WorkerFault, Inward
  <2>2. QED
    BY <1>6, <2>1, TakeAccount, InwardAccount, RetryAccount, ReturnAccount
<1>7. QED
  BY <1>3, <1>4, <1>5, <1>6 DEF Next

-----------------------------------------------------------------------------
(* The account is inductive.                                                *)

LEMMA DuplicatedGrows ==
  ASSUME Next
  PROVE  duplicated \subseteq duplicated'
<1>1. CASE ApiNext
  BY <1>1 DEF ApiNext, CreateCampaign, ApiLoad, ApiReject, ApiCancel, ApiExecute, ApiPublish,
              ApiFails, history
<1>2. CASE SchedNext
  BY <1>2 DEF SchedNext, ClockTick, SchedBoot, SchedSelect, SchedCommit, SchedClaimFails,
              SchedDispatch, SchedDispatchFails, SchedCrash, history
<1>3. CASE BrokerNext
  BY <1>3 DEF BrokerNext, Redeliver, history
<1>4. CASE WorkerNext
  <2>1. CASE \E w \in Workers, m \in Message : WorkerTake(w, m)
    BY <2>1 DEF WorkerTake, history
  <2>2. CASE \E w \in Workers : WorkerStep(w)
    BY <2>2 DEF WorkerStep, StartRun, Complete, FetchFails, LoadFailed, RecordFailure,
                RefreshRun, Retry, RetriesExhausted, Ack, history
  <2>3. CASE \E w \in Workers : WorkerFault(w)
    BY <2>3 DEF WorkerFault, StartFails, CompleteFails, LateTimeLimit, RecordFailureFails, RefreshFails,
                RetryPublishFails, ChildLost, WorkerCrash, ConnectionLost
  <2>4. QED
    BY <1>4, <2>1, <2>2, <2>3 DEF WorkerNext
<1>5. QED
  BY <1>1, <1>2, <1>3, <1>4 DEF Next

LEMMA NextOneCarrier ==
  ASSUME IndInv, OneCarrier, Next
  PROVE  OneCarrier'
<1>1. SUFFICES ASSUME NEW r \in Runs, r \notin duplicated'
               PROVE  Single(Carriers(r, Acting)')
  BY DEF OneCarrier, Single
<1>2. r \notin duplicated
  BY <1>1, DuplicatedGrows
<1>3. Single(Carriers(r, Acting))
  BY <1>2 DEF OneCarrier, Single
<1>4. Held(r)
  BY NextAccount
<1>5. CASE Kept(Carriers(r, Acting), Carriers(r, Acting)')
  BY <1>3, <1>5, KeptSingle
<1>6. CASE \E y : Carriers(r, Acting)' \subseteq {y}
  BY <1>6 DEF Single
<1>7. QED
  BY <1>1, <1>4, <1>5, <1>6 DEF Held

LEMMA NextFindingsPaid ==
  ASSUME IndInv, FindingsPaid, Next
  PROVE  FindingsPaid'
<1>1. SUFFICES ASSUME NEW r \in Runs
               PROVE  /\ IsFiniteSet(Carriers(r, Unpaid)')
                      /\ run'[r].findings + Cardinality(Carriers(r, Unpaid)') <= 1 + faults'
  BY DEF FindingsPaid
<1> DEFINE U == Carriers(r, Unpaid)
           V == Carriers(r, Unpaid)'
<1>2. /\ IsFiniteSet(U) /\ run[r].findings + Cardinality(U) <= 1 + faults
      /\ run[r].findings \in Nat /\ faults \in Nat /\ faults' \in Nat /\ run'[r].findings \in Nat
  <2>1. TypeOK'
    BY NextTypeOK
  <2>2. QED
    BY <2>1 DEF FindingsPaid, IndInv, TypeOK, StoreTypeOK, RunRow
<1>3. Cardinality(U) \in Nat /\ (IsFiniteSet(V) => Cardinality(V) \in Nat)
  BY <1>2, FS_CardinalityType
<1>4. Paid(r)
  BY NextAccount
<1>5. CASE run'[r].findings = run[r].findings /\ faults' >= faults /\ Kept(U, V)
  <2>1. IsFiniteSet(V) /\ Cardinality(V) <= Cardinality(U)
    BY <1>2, <1>5, KeptSize
  <2>2. QED
    BY <1>2, <1>3, <1>5, <2>1
<1>6. CASE run'[r].findings = run[r].findings + 1 /\ faults' >= faults /\ \E x : OneLess(U, V, x)
  <2>1. IsFiniteSet(V) /\ Cardinality(V) <= Cardinality(U) - 1
    BY <1>2, <1>6, ShrunkSize DEF OneLess
  <2>2. QED
    BY <1>2, <1>3, <1>6, <2>1
<1>7. CASE run'[r].findings = run[r].findings /\ faults' = faults + 1 /\ \E y : OneMore(U, V, y)
  <2>1. IsFiniteSet(V) /\ Cardinality(V) <= Cardinality(U) + 1
    BY <1>2, <1>7, GrownSize DEF OneMore
  <2>2. QED
    BY <1>2, <1>3, <1>7, <2>1
<1>8. CASE run'[r].findings = run[r].findings + 1 /\ faults' = faults + 1 /\ Fewer(U, V)
  <2>1. IsFiniteSet(V) /\ Cardinality(V) <= Cardinality(U)
    BY <1>2, <1>8, KeptSize DEF Fewer, Kept
  <2>2. QED
    BY <1>2, <1>3, <1>8, <2>1
<1>9. CASE run'[r].findings = 0 /\ faults' >= faults /\ U = {} /\ \E y : V \subseteq {y}
  <2>1. PICK y : V \subseteq U \cup {y}
    BY <1>9
  <2>2. IsFiniteSet(V) /\ Cardinality(V) <= Cardinality(U) + 1
    BY <1>2, <2>1, GrownSize
  <2>3. Cardinality(U) = 0
    BY <1>9, FS_EmptySet
  <2>4. QED
    BY <1>2, <1>3, <1>9, <2>2, <2>3
<1>10. QED
  BY <1>4, <1>5, <1>6, <1>7, <1>8, <1>9 DEF Paid

-----------------------------------------------------------------------------
(* Who writes the status columns.                                           *)

\* The slot that writes acts on its run and moves on; only as a handler that will
\* write both rows may it write once more.
Writer(w) ==
  /\ worker[w].pc \in Unpaid
  /\ worker'[w].pc # worker[w].pc
  /\ worker'[w].pc = "recording" => worker'[w].dirty = Rows
  /\ \A v \in Workers : v # w => worker'[v] = worker[v]
  /\ UNCHANGED duplicated

\* A step that gives no campaign another status of a run, and writes no run.
NoWrite ==
  /\ UNCHANGED run
  /\ \A c \in Campaigns :
       campaign'[c].status = campaign[c].status \/ campaign'[c].status \notin RunStatus

WorkerWrite(w) ==
  /\ Writer(w)
  /\ \/ MarkBoth(RunOf(w), "running")
     \/ MarkCompleted(RunOf(w))
     \/ At(w, "recording") /\ WriteFailed(w)

LEMMA WorkerWrites ==
  ASSUME IndInv, WorkerNext
  PROVE  NoWrite \/ \E w \in Workers : WorkerWrite(w)
<1>0. worker \in [Workers -> WorkerType]
  BY DEF IndInv, TypeOK, WorkerTypeOK, WorkerType
<1>1. UNCHANGED tables => NoWrite
  BY DEF tables, NoWrite
<1>2. CASE \E w \in Workers, m \in Message : WorkerTake(w, m)
  BY <1>1, <1>2 DEF WorkerTake
<1>3. CASE \E w \in Workers : Retry(w) \/ WorkerCrash(w) \/ ConnectionLost(w)
  BY <1>1, <1>3 DEF Retry, WorkerCrash, ConnectionLost
<1>4. ASSUME NEW w \in Workers, StartRun(w) \/ Complete(w) PROVE WorkerWrite(w)
  <2>1. Writer(w)
    BY <1>0, <1>4 DEF StartRun, Complete, Goto, Writer, At, Acting, Unpaid, WorkerType, history
  <2>2. QED
    BY <1>4, <2>1 DEF StartRun, Complete, WorkerWrite
<1>5. ASSUME NEW w \in Workers, NEW error \in {"db", "task"}, NEW applied \in BOOLEAN,
             StartFails(w, applied) \/ CompleteFails(w, error, applied)
      PROVE  NoWrite \/ WorkerWrite(w)
  <2>1. Writer(w)
    <3>1. PICK pc, e : pc \in {"retry", "failing"} /\ Raise(w, pc, e)
      BY <1>5 DEF StartFails, CompleteFails
    <3>2. worker[w].pc \in {"start", "fetch"} /\ UNCHANGED duplicated
      BY <1>5 DEF StartFails, CompleteFails, At
    <3>3. QED
      BY <1>0, <3>1, <3>2 DEF Raise, Writer, Acting, Unpaid, WorkerType
  <2>2. QED
    BY <1>1, <1>5, <2>1 DEF StartFails, CompleteFails, WorkerWrite
<1>6. ASSUME NEW w \in Workers, RecordFailure(w) PROVE WorkerWrite(w)
  <2>1. Writer(w)
    <3> DEFINE pc == IF worker[w].error = "db" THEN "retry" ELSE "done"
    <3>1. worker' = [worker EXCEPT ![w] = [worker[w] EXCEPT !.pc = pc, !.dirty = {}]]
      BY <1>6 DEF RecordFailure
    <3>2. pc # "recording"
      OBVIOUS
    <3> HIDE DEF pc
    <3>3. worker[w].pc = "recording" /\ UNCHANGED duplicated
      BY <1>6 DEF RecordFailure, At, history
    <3>4. QED
      BY <1>0, <3>1, <3>2, <3>3 DEF Writer, Acting, Unpaid, WorkerType
  <2>2. QED
    BY <1>6, <2>1 DEF RecordFailure, WorkerWrite
<1>7. ASSUME NEW w \in Workers, NEW applied \in BOOLEAN, RecordFailureFails(w, applied)
      PROVE  NoWrite \/ WorkerWrite(w)
  <2>1. Writer(w)
    BY <1>0, <1>7 DEF RecordFailureFails, At, Writer, Acting, Unpaid, WorkerType
  <2>2. QED
    BY <1>1, <1>7, <2>1 DEF RecordFailureFails, WorkerWrite
<1>8. CASE \E w \in Workers :
             \/ FetchFails(w) \/ LoadFailed(w) \/ RefreshRun(w) \/ RetriesExhausted(w) \/ Ack(w)
             \/ RefreshFails(w) \/ RetryPublishFails(w) \/ ChildLost(w)
  BY <1>1, <1>8 DEF FetchFails, LoadFailed, RefreshRun, RetriesExhausted, Ack, RefreshFails,
                    RetryPublishFails, ChildLost
<1>9. ASSUME NEW w \in Workers, LateTimeLimit(w) PROVE WorkerWrite(w)
  <2>1. Writer(w)
    BY <1>0, <1>9 DEF LateTimeLimit, HandleUnread, Writer, At, Acting, Unpaid, WorkerType
  <2>2. QED
    BY <1>9, <2>1 DEF LateTimeLimit, WorkerWrite
<1>10. QED
  BY <1>2, <1>3, <1>4, <1>5, <1>6, <1>7, <1>8, <1>9 DEF WorkerNext, WorkerStep, WorkerFault

\* Requests and schedulers write only when they open runs; the broker never does.
LEMMA NextWrites ==
  ASSUME IndInv, Next
  PROVE  \/ NoWrite
         \/ \E q \in Requests, r \in ApiRuns : ApiExecute(q, r) /\ UNCHANGED worker
         \/ \E s \in Schedulers : \E open \in Openings(sched[s].batch) :
              SchedCommit(s, open) /\ UNCHANGED worker
         \/ \E w \in Workers : WorkerWrite(w)
<1>0. campaign \in [Campaigns -> CampaignRow]
  BY DEF IndInv, TypeOK, StoreTypeOK
<1>1. UNCHANGED tables => NoWrite
  BY DEF tables, NoWrite
<1>2. CASE ApiNext /\ UNCHANGED <<sched, worker>>
  <2>1. ASSUME NEW c \in Campaigns, NEW s \in Schedule, CreateCampaign(c, s) PROVE NoWrite
    BY <1>0, <2>1 DEF CreateCampaign, NoWrite, CampaignRow, RunStatus
  <2>2. ASSUME NEW q \in Requests, ApiCancel(q) PROVE NoWrite
    BY <1>0, <2>2 DEF ApiCancel, NoWrite, CampaignRow, RunStatus
  <2>3. CASE \E q \in Requests :
               \/ \E c \in Campaigns, op \in {"cancel", "execute"} : ApiLoad(q, c, op)
               \/ ApiReject(q) \/ ApiPublish(q) \/ ApiFails(q)
    BY <1>1, <2>3 DEF ApiLoad, ApiReject, ApiPublish, ApiFails
  <2>4. QED
    BY <1>2, <2>1, <2>2, <2>3 DEF ApiNext
<1>3. CASE SchedNext /\ UNCHANGED <<api, worker>>
  <2>1. ASSUME NEW c \in Campaigns, ClockTick(c) PROVE NoWrite
    BY <1>0, <2>1 DEF ClockTick, NoWrite, CampaignRow
  <2>2. CASE \E s \in Schedulers :
               \/ SchedBoot(s) \/ \E batch \in SUBSET Campaigns : SchedSelect(s, batch)
               \/ SchedClaimFails(s) \/ \E r \in SchedRuns : SchedDispatch(s, r)
               \/ SchedDispatchFails(s) \/ SchedCrash(s)
    BY <1>1, <2>2 DEF SchedBoot, SchedSelect, SchedClaimFails, SchedDispatch, SchedDispatchFails,
                      SchedCrash
  <2>3. QED
    BY <1>3, <2>1, <2>2 DEF SchedNext
<1>4. CASE WorkerNext
  BY <1>4, WorkerWrites
<1>5. CASE BrokerNext
  BY <1>1, <1>5 DEF BrokerNext, Redeliver
<1>6. QED
  BY <1>2, <1>3, <1>4, <1>5 DEF Next

\* How a slot comes to fetch a target or to hold the rows of a failure: by the first
\* transaction, with the rows of its session, or with those it read again.
Enters(v) == StartRun(v) \/ FetchFails(v) \/ LateTimeLimit(v) \/ LoadFailed(v)

LEMMA HandlerSteps ==
  ASSUME IndInv, Next, NEW v \in Workers, worker'[v].pc \in {"fetch", "recording"}
  PROVE  worker'[v] = worker[v] \/ Enters(v)
<1>0. worker \in [Workers -> WorkerType]
  BY DEF IndInv, TypeOK, WorkerTypeOK, WorkerType
<1>1. CASE UNCHANGED worker
  BY <1>1
<1>2. ASSUME NEW w \in Workers, NEW m \in Message, WorkerTake(w, m)
      PROVE  worker'[v] = worker[v]
  BY <1>0, <1>2 DEF WorkerTake, IdleWorker
<1>3. ASSUME NEW w \in Workers,
             \/ Complete(w) \/ RefreshRun(w) \/ Retry(w) \/ RetriesExhausted(w)
             \/ RetryPublishFails(w)
      PROVE  worker'[v] = worker[v]
  <2>1. PICK pc \in {"refresh", "done"} : Goto(w, pc)
    BY <1>3 DEF Complete, RefreshRun, Retry, RetriesExhausted, RetryPublishFails
  <2>2. QED
    BY <1>0, <2>1 DEF Goto, WorkerType
<1>4. ASSUME NEW w \in Workers,
             \/ RefreshFails(w) \/ \E applied \in BOOLEAN : StartFails(w, applied)
             \/ \E error \in {"db", "task"}, applied \in BOOLEAN : CompleteFails(w, error, applied)
      PROVE  worker'[v] = worker[v]
  <2>1. PICK pc, error : pc \in {"failing", "retry"} /\ Raise(w, pc, error)
    BY <1>4 DEF RefreshFails, StartFails, CompleteFails
  <2>2. QED
    BY <1>0, <2>1 DEF Raise, WorkerType
<1>5. ASSUME NEW w \in Workers, Ack(w) \/ ChildLost(w) \/ WorkerCrash(w)
      PROVE  worker'[v] = worker[v]
  BY <1>0, <1>5 DEF Ack, ChildLost, WorkerCrash, IdleWorker
<1>6. ASSUME NEW w \in Workers, Enters(w)
      PROVE  worker'[v] = worker[v] \/ Enters(v)
  <2>1. w # v => worker'[v] = worker[v]
    BY <1>0, <1>6 DEF Enters, StartRun, Goto, FetchFails, LateTimeLimit, HandleUnread, LoadFailed
  <2>2. QED
    BY <1>6, <2>1
<1>7. ASSUME NEW w \in Workers, RecordFailure(w) PROVE worker'[v] = worker[v]
  <2> DEFINE pc == IF worker[w].error = "db" THEN "retry" ELSE "done"
  <2>1. worker' = [worker EXCEPT ![w] = [worker[w] EXCEPT !.pc = pc, !.dirty = {}]]
    BY <1>7 DEF RecordFailure
  <2>2. pc \notin {"fetch", "recording"}
    OBVIOUS
  <2> HIDE DEF pc
  <2>3. QED
    BY <1>0, <2>1, <2>2 DEF WorkerType
<1>8. ASSUME NEW w \in Workers, NEW applied \in BOOLEAN, RecordFailureFails(w, applied)
      PROVE  worker'[v] = worker[v]
  BY <1>0, <1>8 DEF RecordFailureFails, WorkerType
<1>9. ASSUME NEW w \in Workers, ConnectionLost(w) PROVE worker'[v] = worker[v]
  BY <1>9 DEF ConnectionLost
<1>10. QED
  BY <1>1, <1>2, <1>3, <1>4, <1>5, <1>6, <1>7, <1>8, <1>9
     DEF Next, WorkerNext, WorkerStep, WorkerFault, Enters

\* Only one slot at a time acts on a run that was delivered once.
LEMMA SoleActor ==
  ASSUME OneCarrier, NEW v \in Workers, NEW w \in Workers, RunOf(v) = RunOf(w),
         RunOf(w) \in Runs \ duplicated, worker[v].pc \in Acting, worker[w].pc \in Acting
  PROVE  v = w
<1> DEFINE r == RunOf(w)
<1>1. v \in Slots(r, Acting) /\ w \in Slots(r, Acting)
  BY DEF Slots
<1>2. <<"worker", v>> \in Carriers(r, Acting) /\ <<"worker", w>> \in Carriers(r, Acting)
  BY <1>1, PartsIn
<1>3. <<"worker", v>> = <<"worker", w>>
  BY <1>2 DEF OneCarrier
<1>4. QED
  BY <1>3

\* A busy slot has a run that is open.
LEMMA BusyRun ==
  ASSUME IndInv, NEW w \in Workers, worker[w].pc \in Acting
  PROVE  RunOf(w) \in Runs /\ Opened(RunOf(w))
<1>1. Busy(w)
  BY DEF Busy, At, Acting
<1>2. worker[w].msg \in Message /\ Opened(RunOf(w))
  BY <1>1 DEF IndInv, MessagesHoldRuns
<1>3. QED
  BY <1>2, MessageType DEF RunOf

\* Opening a run leaves the runs that are open alone.
LEMMA OpeningsElsewhere ==
  ASSUME NEW r \in Runs, Opened(r), run \in [Runs -> RunRow],
         \/ \E q \in Requests, x \in ApiRuns : ApiExecute(q, x)
         \/ \E s \in Schedulers : \E open \in Openings(sched[s].batch) : SchedCommit(s, open)
  PROVE  run'[r] = run[r]
<1>1. ASSUME NEW q \in Requests, NEW x \in ApiRuns, ApiExecute(q, x)
      PROVE  run'[r] = run[r]
  <2>1. x # r /\ run' = [run EXCEPT ![x] = NewRun(api[q].campaign)]
    BY <1>1 DEF ApiExecute, Fresh, Opened
  <2>2. QED
    BY <2>1
<1>2. ASSUME NEW s \in Schedulers, NEW open \in Openings(sched[s].batch), SchedCommit(s, open)
      PROVE  run'[r] = run[r]
  <2>1. ~\E c \in sched[s].batch : open[c] = r
    BY DEF Openings, Fresh, Opened
  <2>2. QED
    BY <1>2, <2>1 DEF SchedCommit
<1>3. QED
  BY <1>1, <1>2

\* What a worker writes: its run and that run's campaign, and no other.
LEMMA WorkerWriteRows ==
  ASSUME IndInv, NEW w \in Workers, WorkerWrite(w)
  PROVE  /\ \A r \in Runs : r # RunOf(w) => run'[r] = run[r]
         /\ \A r \in Runs : run'[r].campaign = run[r].campaign
         /\ \A c \in Campaigns : c # run[RunOf(w)].campaign => campaign'[c] = campaign[c]
<1>1. run \in [Runs -> RunRow] /\ campaign \in [Campaigns -> CampaignRow]
  BY DEF IndInv, TypeOK, StoreTypeOK
<1>2. \A r \in Runs : run[r] \in RunRow
  BY <1>1
<1>3. CASE MarkBoth(RunOf(w), "running")
  BY <1>1, <1>2, <1>3 DEF MarkBoth, RunRow
<1>4. CASE MarkCompleted(RunOf(w))
  BY <1>1, <1>2, <1>4 DEF MarkCompleted, WithFinding, RunRow
<1>5. CASE WriteFailed(w)
  BY <1>1, <1>2, <1>5 DEF WriteFailed, RunRow
<1>6. QED
  BY <1>3, <1>4, <1>5 DEF WorkerWrite

\* Nobody else writes the run of a slot that fetches or records, unless it was
\* delivered twice.
LEMMA RunLeftAlone ==
  ASSUME IndInv, OneCarrier, Next, NEW v \in Workers, worker'[v] = worker[v],
         worker[v].pc \in {"fetch", "recording"}, RunOf(v) \notin duplicated
  PROVE  run'[RunOf(v)] = run[RunOf(v)]
<1> DEFINE r == RunOf(v)
<1>1. /\ run \in [Runs -> RunRow] /\ r \in Runs /\ Opened(r)
      /\ worker[v].pc \in Acting
  BY BusyRun DEF IndInv, TypeOK, StoreTypeOK, Acting
<1>2. CASE NoWrite
  BY <1>2 DEF NoWrite
<1>3. CASE \/ \E q \in Requests, x \in ApiRuns : ApiExecute(q, x)
           \/ \E s \in Schedulers : \E open \in Openings(sched[s].batch) : SchedCommit(s, open)
  BY <1>1, <1>3, OpeningsElsewhere
<1>4. ASSUME NEW w \in Workers, WorkerWrite(w) PROVE run'[r] = run[r]
  <2>1. worker[w].pc \in Acting /\ w # v
    BY <1>4 DEF WorkerWrite, Writer, Unpaid
  <2>2. RunOf(w) # r
    BY <1>1, <2>1, SoleActor
  <2>3. QED
    BY <1>1, <1>4, <2>2, WorkerWriteRows
<1>5. QED
  BY <1>2, <1>3, <1>4, NextWrites

LEMMA NextHandlersKnow ==
  ASSUME IndInv, OneCarrier, HandlersKnow, Next
  PROVE  HandlersKnow'
<1>0. worker \in [Workers -> WorkerType] /\ run \in [Runs -> RunRow]
  BY DEF IndInv, TypeOK, WorkerTypeOK, WorkerType, StoreTypeOK
<1>1. SUFFICES ASSUME NEW v \in Workers, worker'[v].pc \in {"fetch", "recording"},
                      RunOf(v)' \notin duplicated'
               PROVE  /\ worker'[v].pc = "fetch" => run'[RunOf(v)'].status = "running"
                      /\ worker'[v].pc = "recording" =>
                           ("run" \in worker'[v].dirty <=> run'[RunOf(v)'].status # "failed")
  BY DEF HandlersKnow, At, Dirty
<1> DEFINE r == RunOf(v)
<1>2. CASE worker'[v] = worker[v]
  <2>1. worker[v].pc \in {"fetch", "recording"} /\ RunOf(v)' = r /\ r \notin duplicated
    BY <1>1, <1>2, DuplicatedGrows DEF RunOf
  <2>2. run'[r] = run[r]
    BY <1>2, <2>1, RunLeftAlone
  <2>3. QED
    BY <1>2, <2>1, <2>2 DEF HandlersKnow, At, Dirty
<1>3. CASE Enters(v)
  <2>1. RunOf(v)' = r /\ r \notin duplicated /\ worker[v].pc \in {"start", "fetch", "failing"}
    <3>1. worker'[v].msg = worker[v].msg
      BY <1>0, <1>3 DEF Enters, StartRun, Goto, FetchFails, LateTimeLimit, HandleUnread, LoadFailed,
                        WorkerType
    <3>2. worker[v].pc \in {"start", "fetch", "failing"}
      BY <1>3 DEF Enters, StartRun, FetchFails, LateTimeLimit, LoadFailed, At
    <3>3. QED
      BY <1>1, <3>1, <3>2, DuplicatedGrows DEF RunOf
  <2>2. r \in Runs /\ run[r] \in RunRow
    BY <1>0, <2>1, BusyRun DEF Acting
  <2>3. CASE StartRun(v)
    <3>1. worker'[v].pc = "fetch" /\ run' = [run EXCEPT ![r].status = "running"]
      BY <1>0, <2>3 DEF StartRun, MarkBoth, Goto, WorkerType
    <3>2. QED
      BY <1>0, <2>1, <2>2, <3>1 DEF RunRow
  <2>4. CASE FetchFails(v) \/ LateTimeLimit(v)
    <3>1. worker'[v].pc = "recording" /\ "run" \in worker'[v].dirty
      BY <1>0, <2>4, UnreadSlot DEF FetchFails, LateTimeLimit, Rows
    <3>2. CASE FetchFails(v)
      <4>1. UNCHANGED run /\ At(v, "fetch")
        BY <3>2 DEF FetchFails, tables
      <4>2. QED
        BY <2>1, <3>1, <4>1 DEF HandlersKnow
    <3>3. CASE LateTimeLimit(v)
      <4>1. run' = [run EXCEPT ![r] = WithFinding(run[r])]
        BY <3>3 DEF LateTimeLimit, MarkCompleted
      <4>2. QED
        BY <1>0, <2>1, <2>2, <3>1, <4>1 DEF WithFinding
    <3>4. QED
      BY <2>4, <3>2, <3>3
  <2>5. CASE LoadFailed(v)
    <3>1. /\ UNCHANGED run /\ worker'[v].pc = "recording"
          /\ worker'[v].dirty = {row \in Rows :
               \/ row = "run" /\ run[r].status # "failed"
               \/ row = "campaign" /\ campaign[run[r].campaign].status # "failed"}
      BY <1>0, <2>5 DEF LoadFailed, WorkerType, tables
    <3>2. QED
      BY <2>1, <3>1 DEF Rows
  <2>6. QED
    BY <1>3, <2>3, <2>4, <2>5 DEF Enters
<1>4. QED
  BY <1>1, <1>2, <1>3, HandlerSteps

-----------------------------------------------------------------------------
(* Witnesses.                                                               *)

\* A run that keeps agreeing with its campaign stays a witness: a handler that reads
\* the rows now leaves the campaign alone only if it says "failed" already.
LEMMA OldWitness ==
  ASSUME IndInv, Next, NEW c \in Campaigns, NEW r \in Runs, Witnesses(r, c),
         campaign'[c].status = campaign[c].status,
         run'[r].campaign = run[r].campaign, run'[r].status # "none",
         r \in duplicated' \/ run'[r].status = run[r].status \/ run'[r].status = campaign'[c].status
  PROVE  Witnesses(r, c)'
<1>0. worker \in [Workers -> WorkerType] /\ duplicated \subseteq duplicated'
  BY DuplicatedGrows DEF IndInv, TypeOK, WorkerTypeOK, WorkerType
<1>1. CASE r \in duplicated'
  BY <1>1 DEF Witnesses, Opened
<1>2. CASE r \notin duplicated'
  <2>1. run'[r].status = campaign'[c].status
    BY <1>0, <1>2 DEF Witnesses
  <2>2. ASSUME NEW v \in Workers, worker'[v].pc = "recording", RunOf(v)' = r,
               "campaign" \notin worker'[v].dirty
        PROVE  campaign[c].status = "failed"
    <3>1. CASE LoadFailed(v)
      <4>1. /\ RunOf(v)' = RunOf(v)
            /\ worker'[v].dirty = {row \in Rows :
                 \/ row = "run" /\ run[RunOf(v)].status # "failed"
                 \/ row = "campaign" /\ campaign[run[RunOf(v)].campaign].status # "failed"}
        BY <1>0, <3>1 DEF LoadFailed, RunOf, WorkerType
      <4>2. run[RunOf(v)].campaign = c
        BY <2>2, <4>1 DEF Witnesses
      <4>3. QED
        BY <2>2, <4>1, <4>2 DEF Rows
    <3>2. CASE worker'[v] = worker[v]
      BY <1>0, <1>2, <2>2, <3>2 DEF Witnesses, At, Dirty, RunOf
    <3>3. CASE StartRun(v)
      BY <1>0, <2>2, <3>3 DEF StartRun, Goto, WorkerType
    <3>4. CASE FetchFails(v) \/ LateTimeLimit(v)
      BY <1>0, <2>2, <3>4, UnreadSlot DEF FetchFails, LateTimeLimit, Rows
    <3>5. QED
      BY <2>2, <3>1, <3>2, <3>3, <3>4, HandlerSteps DEF Enters
  <2>3. QED
    BY <2>1, <2>2 DEF Witnesses, Opened, At, Dirty
<1>3. QED
  BY <1>1, <1>2

\* A worker that gives its run and the campaign the same status makes the run a witness.
LEMMA NewWitness ==
  ASSUME IndInv, OneCarrier, NEW w \in Workers, Writer(w), NEW r, RunOf(w) = r, NEW c,
         run'[r].campaign = c, run'[r].status # "none",
         r \in duplicated \/ run'[r].status = campaign'[c].status
  PROVE  Witnesses(r, c)'
<1>1. /\ r \in Runs /\ worker[w].pc \in Acting /\ UNCHANGED duplicated
      /\ worker'[w].pc = "recording" => "campaign" \in worker'[w].dirty
  BY BusyRun DEF Writer, Unpaid, Rows
<1>2. CASE r \in duplicated
  BY <1>1, <1>2 DEF Witnesses, Opened
<1>3. CASE r \notin duplicated
  <2>1. ASSUME NEW v \in Workers, worker'[v].pc = "recording", RunOf(v)' = r,
               "campaign" \notin worker'[v].dirty
        PROVE  FALSE
    <3>1. v # w
      BY <1>1, <2>1
    <3>2. worker[v].pc \in Acting /\ RunOf(v) = r
      BY <2>1, <3>1 DEF Writer, RunOf, Acting
    <3>3. QED
      BY <1>1, <1>3, <3>1, <3>2, SoleActor
  <2>2. QED
    BY <1>3, <2>1 DEF Witnesses, Opened, At, Dirty
<1>4. QED
  BY <1>2, <1>3

\* A run that is opened as its campaign is queued is a witness.
LEMMA FreshWitness ==
  ASSUME IndInv, UNCHANGED worker, NEW r \in Runs, NEW c, run[r].status = "none",
         run'[r] = NewRun(c), campaign'[c].status = "queued"
  PROVE  Witnesses(r, c)'
<1>1. run'[r].campaign = c /\ run'[r].status = "queued"
  BY DEF NewRun
<1>2. ASSUME NEW v \in Workers, worker[v].pc = "recording", RunOf(v) = r
      PROVE  FALSE
  BY <1>2, BusyRun DEF Opened, Acting
<1>3. QED
  BY <1>1, <1>2 DEF Witnesses, Opened, At, RunOf

LEMMA WorkerKeepsWitness ==
  ASSUME IndInv, OneCarrier, HandlersKnow, WitnessStays, Next,
         NEW w \in Workers, WorkerWrite(w), NEW c \in Campaigns, campaign'[c].status \in RunStatus
  PROVE  \E r \in Runs : Witnesses(r, c)'
<1>0. /\ run \in [Runs -> RunRow] /\ campaign \in [Campaigns -> CampaignRow]
      /\ duplicated \subseteq duplicated'
  BY DuplicatedGrows DEF IndInv, TypeOK, StoreTypeOK
<1>1. PICK x \in Runs : x = RunOf(w) /\ Opened(x)
  BY BusyRun DEF WorkerWrite, Writer, Unpaid
<1>2. /\ Writer(w)
      /\ \A r \in Runs : r # x => run'[r] = run[r]
      /\ \A r \in Runs : run'[r].campaign = run[r].campaign
      /\ \A d \in Campaigns : d # run[x].campaign => campaign'[d] = campaign[d]
  BY <1>1, WorkerWriteRows DEF WorkerWrite
<1>3. run[x] \in RunRow /\ campaign[c] \in CampaignRow
  BY <1>0
<1>4. ASSUME campaign'[c] = campaign[c], NEW r \in Runs, Witnesses(r, c), r # x
      PROVE  Witnesses(r, c)'
  <2>1. run'[r] = run[r]
    BY <1>2, <1>4
  <2>2. run'[r].status # "none"
    BY <1>4, <2>1 DEF Witnesses, Opened
  <2>3. QED
    BY <1>4, <2>1, <2>2, OldWitness
<1>5. campaign'[c] = campaign[c] => \E r \in Runs : Witnesses(r, c)
  BY DEF WitnessStays
<1>6. CASE c # run[x].campaign
  <2>1. campaign'[c] = campaign[c]
    BY <1>2, <1>6
  <2>2. PICK r \in Runs : Witnesses(r, c)
    BY <1>5, <2>1
  <2>3. r # x
    BY <1>6, <2>2 DEF Witnesses
  <2>4. QED
    BY <1>4, <2>1, <2>2, <2>3
<1>7. CASE c = run[x].campaign
  <2>1. CASE MarkBoth(RunOf(w), "running")
    <3>1. run'[x].status = "running" /\ campaign'[c].status = "running"
      BY <1>0, <1>1, <1>3, <1>7, <2>1 DEF MarkBoth, RunRow, CampaignRow
    <3>2. QED
      BY <1>1, <1>2, <1>7, <3>1, NewWitness
  <2>2. CASE MarkCompleted(RunOf(w))
    <3>1. run'[x].status = "completed" /\ campaign'[c].status = "completed"
      BY <1>0, <1>1, <1>3, <1>7, <2>2 DEF MarkCompleted, WithFinding, RunRow, CampaignRow
    <3>2. QED
      BY <1>1, <1>2, <1>7, <3>1, NewWitness
  <2>3. CASE At(w, "recording") /\ WriteFailed(w)
    <3>1. /\ Dirty(w, "run") => run'[x].status = "failed"
          /\ ~Dirty(w, "run") => run'[x].status = run[x].status
          /\ Dirty(w, "campaign") => campaign'[c].status = "failed"
          /\ ~Dirty(w, "campaign") => campaign'[c] = campaign[c]
      BY <1>0, <1>1, <1>3, <1>7, <2>3 DEF WriteFailed, RunRow, CampaignRow
    <3>2. run'[x].status # "none"
      BY <1>1, <3>1 DEF Opened
    <3>3. CASE Dirty(w, "campaign")
      <4>1. x \in duplicated \/ run'[x].status = "failed"
        BY <1>1, <2>3, <3>1 DEF HandlersKnow
      <4>2. QED
        BY <1>1, <1>2, <1>7, <3>1, <3>2, <3>3, <4>1, NewWitness
    <3>4. CASE ~Dirty(w, "campaign")
      <4>1. campaign'[c] = campaign[c]
        BY <3>1, <3>4
      <4>2. PICK r \in Runs : Witnesses(r, c)
        BY <1>5, <4>1
      <4>3. CASE r # x
        BY <1>4, <4>1, <4>2, <4>3
      <4>4. CASE r = x
        <5>1. \/ r \in duplicated'
              \/ run'[r].status = run[r].status
              \/ run'[r].status = campaign'[c].status
          BY <1>0, <1>1, <2>3, <3>1, <3>4, <4>1, <4>2, <4>4 DEF Witnesses
        <5>2. run'[r].campaign = run[r].campaign /\ run'[r].status # "none"
          BY <1>2, <3>2, <4>4
        <5>3. Witnesses(r, c)'
          BY <4>1, <4>2, <5>1, <5>2, OldWitness
        <5>4. QED
          BY <5>3
      <4>5. QED
        BY <4>3, <4>4
    <3>5. QED
      BY <3>3, <3>4
  <2>4. QED
    BY <2>1, <2>2, <2>3 DEF WorkerWrite
<1>8. QED
  BY <1>6, <1>7

LEMMA NextWitnessStays ==
  ASSUME IndInv, OneCarrier, HandlersKnow, WitnessStays, Next
  PROVE  WitnessStays'
<1>0. run \in [Runs -> RunRow] /\ campaign \in [Campaigns -> CampaignRow]
  BY DEF IndInv, TypeOK, StoreTypeOK
<1>1. SUFFICES ASSUME NEW c \in Campaigns, campaign'[c].status \in RunStatus
               PROVE  \E r \in Runs : Witnesses(r, c)'
  BY DEF WitnessStays
<1>2. campaign[c] \in CampaignRow
  BY <1>0
<1>3. ASSUME campaign'[c].status = campaign[c].status,
             \A r \in Runs : Opened(r) => run'[r] = run[r]
      PROVE  \E r \in Runs : Witnesses(r, c)'
  <2>1. PICK r \in Runs : Witnesses(r, c)
    BY <1>1, <1>3 DEF WitnessStays
  <2>2. run'[r] = run[r] /\ run'[r].status # "none"
    BY <1>3, <2>1 DEF Witnesses, Opened
  <2>3. QED
    BY <1>3, <2>1, <2>2, OldWitness
<1>4. CASE NoWrite
  BY <1>1, <1>3, <1>4 DEF NoWrite
<1>5. ASSUME NEW q \in Requests, NEW x \in ApiRuns, ApiExecute(q, x), UNCHANGED worker
      PROVE  \E r \in Runs : Witnesses(r, c)'
  <2>1. \A r \in Runs : Opened(r) => run'[r] = run[r]
    BY <1>0, <1>5, OpeningsElsewhere
  <2>2. /\ campaign' = [campaign EXCEPT ![api[q].campaign].status = QueuedFrom(api[q].seen, @)]
        /\ x \in Runs /\ run[x].status = "none"
        /\ run' = [run EXCEPT ![x] = NewRun(api[q].campaign)]
    BY <1>5 DEF ApiExecute, Fresh, Runs
  <2>3. CASE c = api[q].campaign /\ api[q].seen # "queued"
    <3>1. campaign'[c].status = "queued" /\ run'[x] = NewRun(c)
      BY <1>0, <1>2, <2>2, <2>3 DEF QueuedFrom, CampaignRow
    <3>2. QED
      BY <1>5, <2>2, <3>1, FreshWitness
  <2>4. CASE c # api[q].campaign \/ api[q].seen = "queued"
    <3>1. campaign'[c].status = campaign[c].status
      BY <1>0, <1>2, <2>2, <2>4 DEF QueuedFrom, CampaignRow
    <3>2. QED
      BY <1>3, <2>1, <3>1
  <2>5. QED
    BY <2>3, <2>4
<1>6. ASSUME NEW s \in Schedulers, NEW open \in Openings(sched[s].batch), SchedCommit(s, open),
             UNCHANGED worker
      PROVE  \E r \in Runs : Witnesses(r, c)'
  <2>1. CASE c \in sched[s].batch
    <3>1. open[c] \in Runs /\ run[open[c]].status = "none"
      BY <2>1 DEF Openings, Fresh, Runs
    <3>2. c = CHOOSE d \in sched[s].batch : open[d] = open[c]
      BY <2>1 DEF Openings
    <3>3. run'[open[c]] = NewRun(c)
      BY <1>6, <2>1, <3>1, <3>2 DEF SchedCommit
    <3>4. campaign'[c].status = "queued"
      BY <1>2, <1>6, <2>1 DEF SchedCommit, CampaignRow
    <3>5. QED
      BY <1>6, <3>1, <3>3, <3>4, FreshWitness
  <2>2. CASE c \notin sched[s].batch
    <3>1. campaign'[c] = campaign[c]
      BY <1>6, <2>2 DEF SchedCommit
    <3>2. \A r \in Runs : Opened(r) => run'[r] = run[r]
      BY <1>0, <1>6, OpeningsElsewhere
    <3>3. QED
      BY <1>3, <3>1, <3>2
  <2>3. QED
    BY <2>1, <2>2
<1>7. ASSUME NEW w \in Workers, WorkerWrite(w)
      PROVE  \E r \in Runs : Witnesses(r, c)'
  BY <1>1, <1>7, WorkerKeepsWitness
<1>8. QED
  BY <1>4, <1>5, <1>6, <1>7, NextWrites

-----------------------------------------------------------------------------
(* Runs that ended.                                                         *)

\* A step that is no fault: nothing is delivered twice, no OperationalError is raised.
LEMMA FaultlessStep ==
  ASSUME IndInv, Next, faults' = 0
  PROVE  /\ faults = 0 /\ duplicated' = duplicated
         /\ \A w \in Workers : worker'[w].error = "db" => worker[w].error = "db"
<1>0. /\ faults \in Nat /\ worker \in [Workers -> WorkerType]
  BY DEF IndInv, TypeOK, StoreTypeOK, WorkerTypeOK, WorkerType
<1>1. ASSUME NEW kind PROVE ~Fault(kind)
  BY <1>0 DEF Fault
<1>2. CASE ApiNext /\ UNCHANGED worker
  BY <1>1, <1>2 DEF ApiNext, CreateCampaign, ApiLoad, ApiReject, ApiCancel, ApiExecute, ApiPublish,
              ApiFails, history
<1>3. CASE SchedNext /\ UNCHANGED worker
  BY <1>1, <1>3 DEF SchedNext, ClockTick, SchedBoot, SchedSelect, SchedCommit, SchedClaimFails,
              SchedDispatch, SchedDispatchFails, SchedCrash, history
<1>4. CASE BrokerNext /\ UNCHANGED worker
  BY <1>4 DEF BrokerNext, Redeliver, history
<1>5. CASE WorkerNext
  <2>1. ASSUME NEW w \in Workers, NEW m \in Message, WorkerTake(w, m)
        PROVE  /\ UNCHANGED history
               /\ \A v \in Workers : worker'[v].error = "db" => worker[v].error = "db"
    BY <1>0, <2>1 DEF WorkerTake, IdleWorker
  <2>2. ASSUME NEW w \in Workers, WorkerStep(w)
        PROVE  /\ UNCHANGED <<faults, duplicated>>
               /\ \A v \in Workers : worker'[v].error = "db" => worker[v].error = "db"
    <3>1. CASE StartRun(w) \/ Complete(w) \/ RefreshRun(w) \/ Retry(w) \/ RetriesExhausted(w)
      <4>1. \E pc : Goto(w, pc)
        BY <3>1 DEF StartRun, Complete, RefreshRun, Retry, RetriesExhausted
      <4>2. UNCHANGED <<faults, duplicated>>
        BY <3>1 DEF StartRun, Complete, RefreshRun, Retry, RetriesExhausted, history
      <4>3. QED
        BY <1>0, <4>1, <4>2 DEF Goto, WorkerType
    <3>2. CASE FetchFails(w)
      BY <1>0, <3>2 DEF FetchFails, HandleUnread, WorkerType, history
    <3>3. CASE LoadFailed(w) \/ RecordFailure(w)
      <4>1. PICK pc, dirty : worker' = [worker EXCEPT ![w] = [worker[w] EXCEPT !.pc = pc, !.dirty = dirty]]
        BY <3>3 DEF LoadFailed, RecordFailure
      <4>2. UNCHANGED <<faults, duplicated>>
        BY <3>3 DEF LoadFailed, RecordFailure, history
      <4>3. QED
        BY <1>0, <4>1, <4>2 DEF WorkerType
    <3>4. CASE Ack(w)
      BY <1>0, <3>4 DEF Ack, IdleWorker, history
    <3>5. QED
      BY <2>2, <3>1, <3>2, <3>3, <3>4 DEF WorkerStep
  <2>3. ASSUME NEW w \in Workers PROVE ~WorkerFault(w)
    BY <1>1 DEF WorkerFault, StartFails, CompleteFails, LateTimeLimit, RecordFailureFails, RefreshFails,
                RetryPublishFails, ChildLost, WorkerCrash, ConnectionLost
  <2>4. QED
    BY <1>5, <2>1, <2>2, <2>3 DEF WorkerNext, history
<1>6. QED
  BY <1>2, <1>3, <1>4, <1>5 DEF Next

\* Only a worker ends a run: with its result or with its failure.
LEMMA EndsByWorker ==
  ASSUME IndInv, Next, faults' = 0, faults = 0, NEW r \in Runs, Ended(r)', ~Ended(r)
  PROVE  \E w \in Workers : /\ RunOf(w) = r /\ (Complete(w) \/ RecordFailure(w))
                             /\ UNCHANGED <<api, sched>>
<1>0. /\ run \in [Runs -> RunRow] /\ run[r] \in RunRow
  BY DEF IndInv, TypeOK, StoreTypeOK
<1>1. run'[r] # run[r]
  BY DEF Ended
<1>2. ASSUME UNCHANGED run PROVE FALSE
  BY <1>1, <1>2
<1>3. ASSUME NEW q \in Requests, NEW x \in ApiRuns, ApiExecute(q, x) PROVE FALSE
  <2>1. run' = [run EXCEPT ![x] = NewRun(api[q].campaign)]
    BY <1>3 DEF ApiExecute
  <2>2. QED
    BY <1>0, <2>1 DEF Ended, NewRun
<1>4. ASSUME NEW s \in Schedulers, NEW open \in Openings(sched[s].batch), SchedCommit(s, open)
      PROVE  FALSE
  <2>1. PICK c : run'[r] = NewRun(c)
    BY <1>1, <1>4 DEF SchedCommit
  <2>2. run'[r].status = "queued"
    BY <2>1 DEF NewRun
  <2>3. QED
    BY <2>2 DEF Ended
<1>6. ASSUME NEW w \in Workers, StartRun(w) PROVE FALSE
  <2>1. run' = [run EXCEPT ![RunOf(w)].status = "running"]
    BY <1>6 DEF StartRun, MarkBoth
  <2>2. QED
    BY <1>0, <2>1 DEF Ended, RunRow
<1>7. ASSUME NEW w \in Workers PROVE ~WorkerFault(w)
  BY DEF WorkerFault, StartFails, CompleteFails, LateTimeLimit, RecordFailureFails, RefreshFails,
         RetryPublishFails, ChildLost, WorkerCrash, ConnectionLost, Fault
<1>8. ASSUME NEW w \in Workers, Complete(w) \/ RecordFailure(w)
      PROVE  RunOf(w) = r
  <2>1. run \in [Runs -> RunRow]
    BY <1>0
  <2>2. CASE Complete(w)
    BY <1>1, <2>1, <2>2 DEF Complete, MarkCompleted
  <2>3. CASE RecordFailure(w)
    BY <1>1, <2>1, <2>3 DEF RecordFailure, WriteFailed
  <2>4. QED
    BY <1>8, <2>2, <2>3
<1>9. CASE WorkerNext /\ UNCHANGED <<api, sched>>
  <2>1. ASSUME NEW w \in Workers, NEW m \in Message, WorkerTake(w, m) PROVE FALSE
    BY <1>2, <2>1 DEF WorkerTake, tables
  <2>2. PICK w \in Workers : WorkerStep(w)
    BY <1>7, <1>9, <2>1 DEF WorkerNext
  <2>3. CASE FetchFails(w) \/ LoadFailed(w) \/ RefreshRun(w) \/ Retry(w) \/ RetriesExhausted(w) \/ Ack(w)
    BY <1>2, <2>3 DEF FetchFails, LoadFailed, RefreshRun, Retry, RetriesExhausted, Ack, tables
  <2>4. QED
    BY <1>6, <1>8, <1>9, <2>2, <2>3 DEF WorkerStep
<1>10. CASE BrokerNext
  BY <1>2, <1>10 DEF BrokerNext, Redeliver, tables
<1>11. CASE ApiNext
  BY <1>2, <1>3, <1>11 DEF ApiNext, CreateCampaign, ApiLoad, ApiReject, ApiCancel, ApiPublish,
                           ApiFails, tables
<1>12. CASE SchedNext
  BY <1>2, <1>4, <1>12 DEF SchedNext, ClockTick, SchedBoot, SchedSelect, SchedClaimFails,
                           SchedDispatch, SchedDispatchFails, SchedCrash, tables
<1>13. QED
  BY <1>9, <1>10, <1>11, <1>12 DEF Next

\* Whoever ended a run was its last carrier, and stops carrying it.
LEMMA NextEndedAtRest ==
  ASSUME IndInv, OneCarrier, EndedAtRest, Next
  PROVE  EndedAtRest'
<1>1. SUFFICES ASSUME faults' = 0
               PROVE  /\ duplicated' = {}
                      /\ \A w \in Workers : worker'[w].error # "db"
                      /\ \A r \in Runs : Ended(r)' => Carriers(r, Unpaid)' = {}
  BY DEF EndedAtRest
<1>2. /\ faults = 0 /\ duplicated' = {} /\ duplicated = {}
      /\ \A w \in Workers : worker[w].error # "db" /\ worker'[w].error # "db"
      /\ \A r \in Runs : Ended(r) => Carriers(r, Unpaid) = {}
  BY <1>1, FaultlessStep DEF EndedAtRest
<1>3. ASSUME NEW r \in Runs, Ended(r)'
      PROVE  Carriers(r, Unpaid)' = {}
  <2>0. Paid(r)
    BY NextAccount
  <2>1. CASE Ended(r)
    <3>1. Carriers(r, Unpaid) = {} /\ run[r].status # "none"
      BY <1>2, <2>1 DEF Ended
    <3>2. QED
      BY <1>1, <1>2, <2>0, <3>1 DEF Paid, Kept, OneLess
  <2>2. CASE ~Ended(r)
    <3>0. /\ run \in [Runs -> RunRow] /\ worker \in [Workers -> WorkerType]
          /\ run[r] \in RunRow
      BY DEF IndInv, TypeOK, StoreTypeOK, WorkerTypeOK, WorkerType
    <3>1. r \in Runs \ duplicated
      BY <1>2
    <3>2. Single(Carriers(r, Unpaid))
      <4>1. Fewer(Carriers(r, Acting), Carriers(r, Unpaid))
        <5>1. Slots(r, Unpaid) \subseteq Slots(r, Acting)
          BY DEF Slots, Unpaid
        <5>2. QED
          BY <5>1, CarriersGathered, GatheredFewer DEF Fewer
      <4>2. QED
        BY <3>1, <4>1 DEF OneCarrier, Single, Fewer
    <3>3. PICK w \in Workers : RunOf(w) = r /\ (Complete(w) \/ RecordFailure(w))
                               /\ UNCHANGED <<api, sched>>
      BY EndsByWorker, <1>1, <1>2, <1>3, <2>2
    <3>4. CASE Complete(w)
      <4>1. MarkCompleted(RunOf(w))
        BY <3>4 DEF Complete
      <4>2. run'[r].findings = run[r].findings + 1
        BY <3>0, <3>3, <4>1, WritesFindings
      <4>3. run[r].findings \in Nat
        BY <3>0 DEF RunRow
      <4>4. \E x : OneLess(Carriers(r, Unpaid), Carriers(r, Unpaid)', x)
        BY <1>1, <1>2, <2>0, <4>2, <4>3 DEF Paid
      <4>5. QED
        BY <3>2, <4>4 DEF OneLess, Single
    <3>5. CASE RecordFailure(w)
      <4>1. /\ Inward(w) /\ worker[w].pc = "recording"
            /\ worker' = [worker EXCEPT ![w] = [worker[w] EXCEPT !.pc = "done", !.dirty = {}]]
        BY <1>2, <3>5 DEF RecordFailure, Inward, At
      <4>2. worker'[w].pc = "done"
        BY <3>0, <4>1 DEF WorkerType
      <4>3. /\ UNCHANGED broker
            /\ \A v \in Workers : v # w => worker'[v] = worker[v]
            /\ worker'[w].msg = worker[w].msg \/ worker'[w] = IdleWorker
            /\ worker'[w].pc \in Unpaid => worker[w].pc \in Unpaid
        BY <3>0, <4>1, <4>2, InwardMoves DEF Unpaid, Acting
      <4>4. Fewer(Carriers(r, Unpaid), Carriers(r, Unpaid)')
        BY <3>3, <4>3, SlotMoves
      <4>5. w \in Slots(r, Unpaid) /\ w \notin Slots(r, Unpaid)'
        BY <3>3, <4>1, <4>2 DEF Slots, Unpaid, Acting
      <4>6. <<"worker", w>> \in Carriers(r, Unpaid) /\ <<"worker", w>> \notin Carriers(r, Unpaid)'
        BY <4>5, PartsIn
      <4>7. QED
        BY <3>2, <4>4, <4>6 DEF Fewer, Single
    <3>6. QED
      BY <3>3, <3>4, <3>5
  <2>3. QED
    BY <2>1, <2>2
<1>4. QED
  BY <1>2, <1>3

-----------------------------------------------------------------------------
(* Theorems.                                                                *)

LEMMA InitCarrierInv == Init => CarrierInv
<1> SUFFICES ASSUME Init PROVE CarrierInv
  OBVIOUS
<1>0. IndInv
  BY InitIndInv
<1>1. \A r \in Runs : run[r].status = "none" /\ run[r].findings = 0
  BY DEF Init, StoreInit
<1>2. \A r \in Runs : Carriers(r, Acting) = {} /\ Carriers(r, Unpaid) = {}
  BY <1>0, <1>1, FreshUncarried DEF Acting, Unpaid
<1>3. OneCarrier
  BY <1>2 DEF OneCarrier
<1>4. FindingsPaid
  <2>1. IsFiniteSet({}) /\ Cardinality({}) = 0 /\ faults = 0
    BY FS_EmptySet DEF Init, StoreInit
  <2>2. SUFFICES ASSUME NEW r \in Runs
                 PROVE  /\ IsFiniteSet(Carriers(r, Unpaid))
                        /\ run[r].findings + Cardinality(Carriers(r, Unpaid)) <= 1 + faults
    BY DEF FindingsPaid
  <2>3. QED
    BY <1>1, <1>2, <2>1
<1>5. HandlersKnow /\ WitnessStays
  BY DEF Init, StoreInit, WorkerInit, IdleWorker, HandlersKnow, WitnessStays, At, RunStatus
<1>6. EndedAtRest
  BY <1>2 DEF Init, StoreInit, WorkerInit, IdleWorker, EndedAtRest
<1>7. QED
  BY <1>3, <1>4, <1>5, <1>6 DEF CarrierInv

\* Whatever requests, schedulers, deliveries and faults do: a run delivered once is in
\* one hand at a time, every finding beyond its first is paid for by a fault, and every
\* campaign has a run that says what the campaign says.
THEOREM Accounted == Spec => []CarrierInv
<1>1. IndInv /\ CarrierInv /\ [Next]_vars => CarrierInv'
  <2>1. SUFFICES ASSUME IndInv, CarrierInv, [Next]_vars PROVE CarrierInv'
    OBVIOUS
  <2>2. CASE Next
    BY <2>1, <2>2, NextOneCarrier, NextFindingsPaid, NextHandlersKnow, NextWitnessStays,
       NextEndedAtRest DEF CarrierInv
  <2>3. CASE UNCHANGED vars
    <3>1. /\ UNCHANGED <<campaign, run, faults, duplicated, queue, abandoned>>
          /\ UNCHANGED <<api, sched, worker>>
      BY <2>3 DEF vars, tables, history, broker
    <3>2. \A r, steps : Carriers(r, steps)' = Carriers(r, steps)
      BY <3>1 DEF Carriers, Copies, RunOf, ApiCarries, SchedCarries
    <3>3. OneCarrier'
      BY <2>1, <3>1, <3>2 DEF CarrierInv, OneCarrier
    <3>4. FindingsPaid'
      BY <2>1, <3>1, <3>2 DEF CarrierInv, FindingsPaid
    <3>5. HandlersKnow' /\ WitnessStays'
      BY <2>1, <3>1 DEF CarrierInv, HandlersKnow, WitnessStays, Witnesses, Opened, RunOf, At, Dirty
    <3>6. EndedAtRest'
      BY <2>1, <3>1, <3>2 DEF CarrierInv, EndedAtRest, Ended
    <3>7. QED
      BY <3>3, <3>4, <3>5, <3>6 DEF CarrierInv
  <2>4. QED
    BY <2>1, <2>2, <2>3
<1>2. Spec => []IndInv
  BY Invariance
<1>3. QED
  BY InitCarrierInv, <1>1, <1>2, PTL DEF Spec

\* pipeline.py writes run and campaign in one commit, also when it fails: what a campaign
\* says of its execution is what one of its runs says, unless that run was delivered twice.
THEOREM StatusAlwaysWitnessed == Spec => []StatusWitnessed
<1>1. CarrierInv => StatusWitnessed
  BY DEF CarrierInv, WitnessStays, Witnesses, StatusWitnessed
<1>2. QED
  BY Accounted, <1>1, PTL

\* acks_late and autoretry_for make a task run again: every finding of a run beyond its
\* first costs a fault, whatever the interleaving.
THEOREM FindingsCostFaults == Spec => []FindingsBoundedByFaults
<1>1. IndInv /\ FindingsPaid => FindingsBoundedByFaults
  <2>1. SUFFICES ASSUME IndInv, FindingsPaid, NEW r \in Runs
                 PROVE  run[r].findings <= 1 + faults
    BY DEF FindingsBoundedByFaults
  <2>2. /\ run[r].findings \in Nat /\ faults \in Nat
        /\ IsFiniteSet(Carriers(r, Unpaid))
        /\ run[r].findings + Cardinality(Carriers(r, Unpaid)) <= 1 + faults
    BY <2>1 DEF FindingsPaid, IndInv, TypeOK, StoreTypeOK, RunRow
  <2>3. Cardinality(Carriers(r, Unpaid)) \in Nat
    BY <2>2, FS_CardinalityType
  <2>4. QED
    BY <2>2, <2>3
<1>2. CarrierInv => FindingsPaid
  BY DEF CarrierInv
<1>3. QED
  BY Invariance, Accounted, <1>1, <1>2, PTL

\* StartRun asks for no status: a run that has ended is executed again only after a
\* fault, and one with findings only after as many faults.
THEOREM EndIsFinal == Spec => EndedIsFinal
<1>1. IndInv /\ CarrierInv /\ [Next]_vars =>
        [\A r \in Runs :
           Ended(r) /\ run'[r] # run[r] => faults > 0 /\ run[r].findings <= faults]_vars
  <2>1. SUFFICES ASSUME IndInv, OneCarrier, FindingsPaid, EndedAtRest, Next,
                        NEW r \in Runs, Ended(r), run'[r] # run[r]
                 PROVE  faults > 0 /\ run[r].findings <= faults
    BY DEF CarrierInv
  <2>2. /\ run \in [Runs -> RunRow] /\ run[r].findings \in Nat /\ faults \in Nat
        /\ Opened(r)
    BY <2>1 DEF IndInv, TypeOK, StoreTypeOK, RunRow, Ended, Opened
  <2>3. PICK w \in Workers : WorkerWrite(w)
    BY <2>1, <2>2, NextWrites, OpeningsElsewhere DEF NoWrite
  <2>4. RunOf(w) = r
    BY <2>1, <2>3, WorkerWriteRows
  <2>5. worker[w].pc \in Unpaid
    BY <2>3 DEF WorkerWrite, Writer
  <2>6. <<"worker", w>> \in Carriers(r, Unpaid)
    BY <2>4, <2>5, PartsIn DEF Slots
  <2>7. /\ IsFiniteSet(Carriers(r, Unpaid))
        /\ run[r].findings + Cardinality(Carriers(r, Unpaid)) <= 1 + faults
    BY <2>1 DEF FindingsPaid
  <2>8. Cardinality(Carriers(r, Unpaid)) \in Nat /\ Cardinality(Carriers(r, Unpaid)) # 0
    BY <2>6, <2>7, FS_CardinalityType, FS_EmptySet
  <2>9. faults # 0
    BY <2>1, <2>6 DEF EndedAtRest
  <2>10. QED
    BY <2>2, <2>7, <2>8, <2>9
<1>2. QED
  BY Invariance, Accounted, <1>1, PTL DEF Spec, EndedIsFinal
=============================================================================
