------------------------- MODULE DistributedLockProofs -------------------------
(***************************************************************************)
(* Proofs about DistributedLock, for any number of clients and any expiry. *)
(***************************************************************************)
EXTENDS DistributedLock, TLAPS

LEMMA InitIndInv == Init => IndInv
BY LockAssumption
DEF Init, Free, Pc, IndInv, TypeOK, KeyTypeOK, KeyOutlivesReliance, Outlives

\* Ages never leave 0..Ttl, and never shrink as time passes.
LEMMA OlderBounds == \A n \in 0..Ttl : Older(n) \in 0..Ttl /\ (Older(n) = n + 1 \/ Older(n) = Ttl)
BY LockAssumption DEF Older

\* What each kind of step does to the key.
LEMMA KeySteps ==
  ASSUME KeyTypeOK
  PROVE  /\ KeyTypeOK /\ key' = key => KeyTypeOK'
         /\ Tick => /\ KeyTypeOK'
                    /\ key'.owner # key.owner => key.ttl <= 1 /\ key'.owner = NoOwner
                    /\ key'.ttl + 1 = key.ttl \/ (key.ttl = 0 /\ key'.ttl = 0)
         /\ \A c \in Clients :
              SetNxEx(c) =>
                /\ KeyTypeOK'
                /\ key.owner = NoOwner => key'.owner = c /\ key'.ttl = Ttl
                /\ key.owner # NoOwner => key' = key
         /\ \A c \in Clients :
              CompareAndDelete(c) => KeyTypeOK' /\ (key.owner # c => key' = key)
<1> USE LockAssumption DEF KeyTypeOK, Free
<1>1. key' = key => KeyTypeOK'
  OBVIOUS
<1>2. ASSUME Tick
      PROVE  /\ KeyTypeOK'
             /\ key'.owner # key.owner => key.ttl <= 1 /\ key'.owner = NoOwner
             /\ key'.ttl + 1 = key.ttl \/ (key.ttl = 0 /\ key'.ttl = 0)
  BY <1>2 DEF Tick
<1>3. ASSUME NEW c \in Clients, SetNxEx(c)
      PROVE  /\ KeyTypeOK'
             /\ key.owner = NoOwner => key'.owner = c /\ key'.ttl = Ttl
             /\ key.owner # NoOwner => key' = key
  BY <1>3 DEF SetNxEx
<1>4. ASSUME NEW c \in Clients, CompareAndDelete(c)
      PROVE  KeyTypeOK' /\ (key.owner # c => key' = key)
  BY <1>4 DEF CompareAndDelete
<1>5. QED
  BY <1>1, <1>2, <1>3, <1>4

LEMMA BooleanUpdate ==
  ASSUME NEW f \in [Clients -> BOOLEAN], NEW c \in Clients, NEW b \in BOOLEAN
  PROVE  [f EXCEPT ![c] = b] \in [Clients -> BOOLEAN]
OBVIOUS

LEMMA NextTypeOK ==
  ASSUME TypeOK, [Next]_vars
  PROVE  TypeOK'
<1>1. KeyTypeOK'
  BY KeySteps
  DEF TypeOK, Next, CallAcquire, CallRelease, Granted, Denied, ReleaseReturns, CallBreaks,
      ExecuteAcquire, ExecuteRelease, ExecuteLateAcquire, ExecuteLateRelease, vars
<1> DEFINE Rest == /\ pc \in [Clients -> Pc]
                   /\ acquired \in [Clients -> BOOLEAN]
                   /\ late \in [Clients -> SUBSET {"acquire", "release"}]
                   /\ sent \in [Clients -> 0..Ttl]
                   /\ since \in [Clients -> 0..Ttl]
                   /\ undone \in [Clients -> BOOLEAN]
<1> SUFFICES Rest'
  BY <1>1 DEF TypeOK
<1> Rest
  BY DEF TypeOK
<1> USE LockAssumption DEF Pc, methods, history
<1>2. CASE Tick
  BY <1>2, OlderBounds DEF Tick
<1>3. ASSUME NEW c \in Clients, CallAcquire(c) \/ CallRelease(c) PROVE Rest'
  BY <1>3 DEF CallAcquire, CallRelease
<1>4. ASSUME NEW c \in Clients, Granted(c) \/ Denied(c) PROVE Rest'
  <2>1. pc' = [pc EXCEPT ![c] = "idle"] /\ sent' = [sent EXCEPT ![c] = 0]
    BY <1>4 DEF Granted, Denied
  <2>2. acquired' \in [Clients -> BOOLEAN]
    BY <1>4 DEF Granted, Denied
  <2>3. since' \in [Clients -> 0..Ttl]
    <3>1. since' = [since EXCEPT ![c] = sent[c]] \/ since' = since
      BY <1>4 DEF Granted, Denied
    <3>2. sent[c] \in 0..Ttl
      OBVIOUS
    <3>3. QED
      BY <3>1, <3>2
  <2>4. late' = late /\ undone' = undone
    BY <1>4 DEF Granted, Denied
  <2>5. pc' \in [Clients -> Pc] /\ sent' \in [Clients -> 0..Ttl]
    BY <2>1
  <2>6. QED
    BY <2>2, <2>3, <2>4, <2>5
<1>5. ASSUME NEW c \in Clients, ReleaseReturns(c) \/ CallBreaks(c) PROVE Rest'
  <2>1. CASE ReleaseReturns(c)
    <3>1. acquired' = [acquired EXCEPT ![c] = acquired[c] /\ pc[c] = "kept"]
      BY <2>1 DEF ReleaseReturns
    <3>2. acquired' \in [Clients -> BOOLEAN]
      BY <3>1, BooleanUpdate
    <3>3. QED
      BY <2>1, <3>2 DEF ReleaseReturns
  <2>2. CASE CallBreaks(c)
    <3>1. late' \in [Clients -> SUBSET {"acquire", "release"}]
      BY <2>2 DEF CallBreaks
    <3>2. /\ pc' = [pc EXCEPT ![c] = "idle"]
          /\ sent' = [sent EXCEPT ![c] = 0]
          /\ UNCHANGED <<acquired, since, undone>>
      BY <2>2 DEF CallBreaks
    <3>3. pc' \in [Clients -> Pc] /\ sent' \in [Clients -> 0..Ttl]
      BY <3>2
    <3>4. QED
      BY <3>1, <3>2, <3>3
  <2>3. QED
    BY <1>5, <2>1, <2>2
<1>6. ASSUME NEW c \in Clients, ExecuteAcquire(c) \/ ExecuteRelease(c) PROVE Rest'
  <2>1. CASE ExecuteAcquire(c)
    <3>1. undone' = [undone EXCEPT ![c] = undone[c] /\ key.owner # NoOwner]
      BY <2>1 DEF ExecuteAcquire
    <3>2. undone' \in [Clients -> BOOLEAN]
      BY <3>1, BooleanUpdate
    <3>3. QED
      BY <2>1, <3>2 DEF ExecuteAcquire
  <2>2. CASE ExecuteRelease(c)
    BY <2>2 DEF ExecuteRelease
  <2>3. QED
    BY <1>6, <2>1, <2>2
<1>7. ASSUME NEW c \in Clients, ExecuteLateAcquire(c) \/ ExecuteLateRelease(c) PROVE Rest'
  <2>1. late' \in [Clients -> SUBSET {"acquire", "release"}]
    BY <1>7 DEF ExecuteLateAcquire, ExecuteLateRelease
  <2>2. undone' \in [Clients -> BOOLEAN]
    BY <1>7 DEF ExecuteLateAcquire, ExecuteLateRelease
  <2>3. QED
    BY <1>7, <2>1, <2>2 DEF ExecuteLateAcquire, ExecuteLateRelease
<1>8. CASE UNCHANGED vars
  BY <1>8 DEF vars
<1>9. QED
  BY <1>2, <1>3, <1>4, <1>5, <1>6, <1>7, <1>8 DEF Next

\* The key lives at least as long as its owner relies on it: the lease was counted
\* from before the key was set, both clocks tick together, nobody overwrites a
\* key, and only its owner's release deletes it.
LEMMA NextKeyOutlives ==
  ASSUME TypeOK, KeyOutlivesReliance, [Next]_vars
  PROVE  KeyOutlivesReliance'
<1> DEFINE Kept(c) == /\ pc[c] = "granted" => Outlives(c, sent[c])
                      /\ acquired[c] => Outlives(c, since[c])
                      /\ pc[c] = "release" => since[c] = Ttl
<1> SUFFICES ASSUME NEW d \in Clients PROVE Kept(d)'
  BY DEF KeyOutlivesReliance
<1> Kept(d)
  BY DEF KeyOutlivesReliance
<1>1. CASE Tick
  <2>1. key'.ttl + 1 = key.ttl \/ (key.ttl = 0 /\ key'.ttl = 0)
    BY <1>1, KeySteps DEF TypeOK
  <2>2. key'.owner # key.owner => key.ttl <= 1
    BY <1>1, KeySteps DEF TypeOK
  <2>3. key.ttl \in 0..Ttl /\ key'.ttl \in 0..Ttl /\ Ttl \in Nat
    BY NextTypeOK, LockAssumption DEF TypeOK, KeyTypeOK
  <2>4. /\ pc' = pc /\ acquired' = acquired /\ undone' = undone
        /\ since'[d] = Older(since[d])
        /\ pc[d] = "granted" => sent'[d] = Older(sent[d])
        /\ since[d] \in 0..Ttl /\ sent[d] \in 0..Ttl
    BY <1>1 DEF Tick, methods, TypeOK
  <2>5. ASSUME NEW age \in 0..Ttl, Outlives(d, age), Older(age) < Ttl, ~undone[d]
        PROVE  key'.owner = d /\ key'.ttl + Older(age) >= Ttl
    <3>1. Older(age) = age + 1 /\ age + 1 < Ttl
      BY <2>3, <2>5 DEF Older
    <3>2. key.owner = d /\ key.ttl + age >= Ttl
      BY <2>3, <2>5, <3>1 DEF Outlives
    <3>3. key.ttl > 1
      BY <2>3, <3>1, <3>2
    <3>4. QED
      BY <2>1, <2>2, <2>3, <3>1, <3>2, <3>3
  <2>6. ASSUME acquired[d] PROVE Outlives(d, since[d])'
    BY <2>4, <2>5, <2>6 DEF Outlives
  <2>7. ASSUME pc[d] = "granted" PROVE Outlives(d, sent[d])'
    BY <2>4, <2>5, <2>7 DEF Outlives
  <2>8. pc[d] = "release" => since'[d] = Ttl
    BY <2>3, <2>4 DEF Older
  <2>9. QED
    BY <2>4, <2>6, <2>7, <2>8
<1>2. ASSUME NEW c \in Clients,
             CallAcquire(c) \/ CallRelease(c) \/ Granted(c) \/ Denied(c) \/ ReleaseReturns(c)
               \/ CallBreaks(c)
      PROVE  Kept(d)'
  <2>1. \A age \in 0..Ttl : Outlives(d, age)' <=> Outlives(d, age)
    BY <1>2 DEF CallAcquire, CallRelease, Granted, Denied, ReleaseReturns, CallBreaks, Outlives,
                history
  <2>2. since[d] \in 0..Ttl /\ sent[d] \in 0..Ttl /\ Ttl \in Nat
    BY LockAssumption DEF TypeOK
  <2>3. ~Outlives(d, Ttl) => FALSE
    BY <2>2 DEF Outlives
  <2>4. CASE c # d
    <3>1. /\ pc'[d] = pc[d] /\ since'[d] = since[d] /\ sent'[d] = sent[d]
          /\ acquired'[d] <=> acquired[d]
      BY <1>2, <2>4 DEF TypeOK, CallAcquire, CallRelease, Granted, Denied, ReleaseReturns,
                        CallBreaks, history
    <3>2. QED
      BY <2>1, <2>2, <3>1
  <2>5. CASE c = d /\ (CallAcquire(c) \/ Denied(c) \/ ReleaseReturns(c) \/ CallBreaks(c))
    <3>1. pc'[d] \in {"idle", "acquire"} /\ since'[d] = since[d]
      BY <2>5 DEF TypeOK, CallAcquire, Denied, ReleaseReturns, CallBreaks, history
    <3>2. acquired'[d] => acquired[d]
      BY <2>5 DEF TypeOK, CallAcquire, Denied, ReleaseReturns, CallBreaks
    <3>3. QED
      BY <2>1, <2>2, <3>1, <3>2
  <2>6. CASE c = d /\ CallRelease(c)
    <3>1. pc'[d] = "release" /\ since'[d] = Ttl
      BY <2>6 DEF TypeOK, CallRelease
    <3>2. QED
      BY <2>2, <3>1 DEF Outlives
  <2>7. CASE c = d /\ Granted(c)
    <3>1. pc[d] = "granted" /\ pc'[d] = "idle" /\ since'[d] = sent[d]
      BY <2>7 DEF TypeOK, Granted
    <3>2. QED
      BY <2>1, <2>2, <3>1
  <2>8. QED
    BY <1>2, <2>4, <2>5, <2>6, <2>7
<1>3. ASSUME NEW c \in Clients, ExecuteAcquire(c) \/ ExecuteLateAcquire(c)
      PROVE  Kept(d)'
  <2>1. /\ SetNxEx(c)
        /\ acquired' = acquired /\ since' = since /\ sent' = sent
        /\ pc'[d] = pc[d] \/ (c = d /\ pc'[d] = "denied")
             \/ (c = d /\ pc'[d] = "granted" /\ key.owner = NoOwner)
        /\ undone'[d] = undone[d] \/ (c = d /\ key.owner = NoOwner)
    BY <1>3 DEF ExecuteAcquire, ExecuteLateAcquire, TypeOK, history
  <2>2. /\ key.owner = NoOwner => key'.owner = c /\ key'.ttl = Ttl
        /\ key.owner # NoOwner => key' = key
    BY <2>1, KeySteps DEF TypeOK
  <2>3. since[d] \in 0..Ttl /\ sent[d] \in 0..Ttl /\ Ttl \in Nat /\ d # NoOwner
    BY LockAssumption DEF TypeOK
  <2>4. ASSUME NEW age \in 0..Ttl, Outlives(d, age) PROVE Outlives(d, age)'
    BY <2>1, <2>2, <2>3, <2>4 DEF Outlives
  <2>5. ASSUME pc'[d] = "granted" PROVE Outlives(d, sent[d])'
    BY <2>1, <2>2, <2>3, <2>4, <2>5 DEF Outlives
  <2>6. QED
    BY <2>1, <2>3, <2>4, <2>5
<1>4. ASSUME NEW c \in Clients, ExecuteRelease(c) \/ ExecuteLateRelease(c)
      PROVE  Kept(d)'
  <2>1. /\ CompareAndDelete(c)
        /\ acquired' = acquired /\ since' = since /\ sent' = sent
        /\ pc'[d] = pc[d] \/ (pc[d] = "release" /\ pc'[d] \in {"deleted", "kept"})
    BY <1>4 DEF ExecuteRelease, ExecuteLateRelease, TypeOK, history
  <2>2. key.owner # c => key' = key
    BY <2>1, KeySteps DEF TypeOK
  <2>3. since[d] \in 0..Ttl /\ sent[d] \in 0..Ttl /\ Ttl \in Nat
    BY LockAssumption DEF TypeOK
  <2>4. CASE c = d /\ key.owner = c /\ ExecuteRelease(c)
    <3>1. since[d] = Ttl /\ pc'[d] = "deleted"
      BY <2>4 DEF ExecuteRelease, TypeOK
    <3>2. QED
      BY <2>1, <2>3, <3>1 DEF Outlives
  <2>5. CASE c = d /\ key.owner = c /\ ExecuteLateRelease(c)
    <3>1. undone'[d]
      BY <2>5 DEF ExecuteLateRelease, TypeOK
    <3>2. pc' = pc
      BY <2>5 DEF ExecuteLateRelease
    <3>3. QED
      BY <2>1, <2>3, <3>1, <3>2 DEF Outlives
  <2>6. CASE c # d \/ key.owner # c
    <3>1. undone[d] => undone'[d]
      BY <1>4, <2>6 DEF ExecuteRelease, ExecuteLateRelease, TypeOK, history
    <3>2. ASSUME NEW age \in 0..Ttl, Outlives(d, age) PROVE Outlives(d, age)'
      BY <2>2, <2>6, <3>1, <3>2 DEF Outlives
    <3>3. QED
      BY <2>1, <2>3, <3>2
  <2>7. QED
    BY <1>4, <2>4, <2>5, <2>6
<1>5. CASE UNCHANGED vars
  BY <1>5 DEF vars, methods, history, Outlives
<1>6. QED
  BY <1>1, <1>2, <1>3, <1>4, <1>5 DEF Next

\* Whatever clients call in whatever order, and however late answers and commands
\* arrive, the key outlives its owner's reliance on it.
THEOREM LockInvariance == Spec => []IndInv
<1>1. IndInv /\ [Next]_vars => IndInv'
  BY NextTypeOK, NextKeyOutlives DEF IndInv
<1>2. QED
  BY InitIndInv, <1>1, PTL DEF Spec

\* Two clients never rely on the lock at once, except one whose own late release took
\* its lock away.
THEOREM MutualExclusion == Spec => []Exclusive
<1>1. IndInv => Exclusive
  BY DEF IndInv, KeyOutlivesReliance, Outlives, Exclusive, Relies
<1>2. QED
  BY <1>1, LockInvariance, PTL

\* Ownership-safe release (README.md:24): no client's release removes another client's
\* key, however late it arrives.
THEOREM ReleaseIsOwnershipSafe == Spec => OwnershipSafe
<1>1. IndInv /\ [Next]_vars =>
        \A c \in Clients :
          key.owner = c /\ key'.owner # c =>
            \/ key.ttl = 1
            \/ pc[c] = "release"
            \/ "release" \in late[c]
  <2> SUFFICES ASSUME IndInv, [Next]_vars, NEW c \in Clients, key.owner = c, key'.owner # c
               PROVE  key.ttl = 1 \/ pc[c] = "release" \/ "release" \in late[c]
    OBVIOUS
  <2>1. KeyTypeOK /\ c # NoOwner
    BY LockAssumption DEF IndInv, TypeOK
  <2>2. key.ttl # 0 /\ key.ttl \in Nat
    BY <2>1, LockAssumption DEF KeyTypeOK
  <2>3. CASE Tick
    BY <2>1, <2>2, <2>3, KeySteps
  <2>4. ASSUME NEW e \in Clients, SetNxEx(e) PROVE FALSE
    BY <2>1, <2>4, KeySteps
  <2>5. ASSUME NEW e \in Clients, CompareAndDelete(e) PROVE e = c
    BY <2>1, <2>5, KeySteps
  <2>6. key' # key
    OBVIOUS
  <2>7. QED
    BY <2>3, <2>4, <2>5, <2>6
    DEF Next, CallAcquire, CallRelease, Granted, Denied, ReleaseReturns, CallBreaks,
        ExecuteAcquire, ExecuteRelease, ExecuteLateAcquire, ExecuteLateRelease, vars
<1>2. QED
  BY <1>1, LockInvariance, PTL DEF Spec, OwnershipSafe
=============================================================================
