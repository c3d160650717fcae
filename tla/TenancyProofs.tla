----------------------------- MODULE TenancyProofs -----------------------------
(***************************************************************************)
(* What Tenancy promises for any number of processes and requests, any     *)
(* keys, names, configurations and lists of targets.                       *)
(***************************************************************************)
EXTENDS Tenancy, TargetAuthorizationProofs

\* The rows are typed and their unique columns unique.
TableOK(rows) ==
  /\ rows \subseteq Row
  /\ \A r, s \in rows : r = s \/ (r.name # s.name /\ r.key # s.key)

\* What a process remembers of its SELECTs is still true: a tenant it found is there.
ProcessesKnow ==
  \A p \in Processes :
    /\ proc[p].next # 0
    /\ proc[p].missing \subseteq DOMAIN proc[p].keys
    /\ proc[p].empty # {} => development
    /\ proc[p].at = "selecting" =>
         \A i \in DOMAIN proc[p].keys :
           i < proc[p].next /\ i \notin proc[p].missing => HasTenant(proc[p].keys[i])

\* A request knows whom it is about, and judges by a list its tenant had.
RequestsKnow ==
  \A q \in Requests :
    /\ request[q].at = "authenticated" => request[q].seen \subseteq held[q]
    /\ request[q].at = "updating" => request[q].tenant \in Keys
    /\ request[q].at = "creating" => request[q].name \in Names

IInv == TypeOK /\ ProcessesKnow /\ RequestsKnow /\ KeysProvisioned /\ LogTellsTargets /\ GrantsHeld

\* The columns nothing writes again.
Keeps(before, after) ==
  \A r \in before : \E s \in after : s.name = r.name /\ s.key = r.key

-----------------------------------------------------------------------------
(* The table.                                                               *)

LEMMA RowsRewritten ==
  ASSUME NEW rows, TableOK(rows), NEW keys, NEW list \in SUBSET Entries
  PROVE  /\ TableOK(WithTargets(rows, keys, list))
         /\ Keeps(rows, WithTargets(rows, keys, list))
         /\ \A s \in WithTargets(rows, keys, list) : \E r \in rows :
              /\ s.name = r.name /\ s.key = r.key
              /\ s.targets = IF r.key \in keys THEN list ELSE r.targets
<1> DEFINE New(r) == IF r.key \in keys THEN [r EXCEPT !.targets = list] ELSE r
<1>1. \A r \in rows : /\ New(r) \in Row /\ New(r).name = r.name /\ New(r).key = r.key
                      /\ New(r).targets = IF r.key \in keys THEN list ELSE r.targets
  BY DEF TableOK, Row
<1>2. WithTargets(rows, keys, list) = {New(r) : r \in rows}
  BY DEF WithTargets
<1> HIDE DEF New
<1>3. QED
  BY <1>1, <1>2 DEF TableOK, Keeps

LEMMA RowsInserted ==
  ASSUME NEW new \in SUBSET Row, Insertable(new), NEW changed, TableOK(changed),
         \A s \in changed : \E r \in tenants : s.name = r.name /\ s.key = r.key
  PROVE  TableOK(changed \cup new)
<1>1. \A r \in new, s \in new : r = s \/ (r.name # s.name /\ r.key # s.key)
  BY DEF Insertable
<1>2. \A r \in new, s \in tenants : r.name # s.name /\ r.key # s.key
  BY DEF Insertable
<1>3. \A r \in new, s \in changed : r.name # s.name /\ r.key # s.key
  BY <1>2
<1>4. QED
  BY <1>1, <1>3 DEF TableOK

\* The rows a process inserts, one for each key it found no tenant for.
LEMMA NewRows ==
  ASSUME IInv, TenancyAssumption, NEW p \in Processes
  PROVE  /\ Provisioned(proc[p]) \subseteq Row
         /\ \A i \in proc[p].missing : \E r \in Provisioned(proc[p]) : r.key = proc[p].keys[i]
         /\ \A r \in Provisioned(proc[p]) : r.targets = LocalTargets
<1>1. /\ proc[p].missing \subseteq DOMAIN proc[p].keys
      /\ proc[p].keys \in Configurations \cup {<<>>}
  BY DEF IInv, TypeOK, ProcessesKnow, Progress
<1>2. \A i \in proc[p].missing : proc[p].keys[i] \in ConfigKeys /\ i \in DOMAIN ConfiguredName
  <2>1. SUFFICES ASSUME NEW i \in proc[p].missing
                 PROVE  proc[p].keys[i] \in ConfigKeys /\ i \in DOMAIN ConfiguredName
    OBVIOUS
  <2>2. proc[p].keys \in Configurations
    BY <1>1
  <2>3. proc[p].keys \in Seq(ConfigKeys) /\ DOMAIN proc[p].keys \subseteq DOMAIN ConfiguredName
    BY <2>2 DEF TenancyAssumption
  <2>4. QED
    BY <1>1, <2>3
<1>3. LocalTargets \in SUBSET Entries
  BY DEF TenancyAssumption
<1> DEFINE row(i) == [name |-> ConfiguredName[i], key |-> proc[p].keys[i], targets |-> LocalTargets]
<1>4. \A i \in proc[p].missing :
        row(i) \in Row /\ row(i).key = proc[p].keys[i] /\ row(i).targets = LocalTargets
  BY <1>2, <1>3 DEF Row, Names, Keys
<1>5. Provisioned(proc[p]) = {row(i) : i \in proc[p].missing}
  BY DEF Provisioned
<1> HIDE DEF row
<1>6. QED
  BY <1>4, <1>5

\* TenantsKeepKeys, and the table as each action leaves it.
LEMMA TableStep ==
  ASSUME IInv, TenancyAssumption, TypeOK, Next
  PROVE  TableOK(tenants') /\ Keeps(tenants, tenants')
<1>1. TableOK(tenants)
  BY DEF TypeOK, TableOK
<1>2. ASSUME tenants' = tenants
      PROVE  TableOK(tenants') /\ Keeps(tenants, tenants')
  BY <1>1, <1>2 DEF Keeps
<1>3. ASSUME NEW p \in Processes, CommitTenants(p)
      PROVE  TableOK(tenants') /\ Keeps(tenants, tenants')
  <2> DEFINE changed == WithTargets(tenants, proc[p].empty, LocalTargets)
  <2>1. tenants' = changed \cup Provisioned(proc[p]) /\ Insertable(Provisioned(proc[p]))
    BY <1>3 DEF CommitTenants, Commit
  <2>2. LocalTargets \in SUBSET Entries
    BY DEF TenancyAssumption
  <2>3. /\ TableOK(changed) /\ Keeps(tenants, changed)
        /\ \A s \in changed : \E r \in tenants : s.name = r.name /\ s.key = r.key
    BY <1>1, <2>2, RowsRewritten
  <2> HIDE DEF changed
  <2>4. TableOK(tenants')
    BY <2>1, <2>3, NewRows, RowsInserted
  <2>5. QED
    BY <2>1, <2>3, <2>4 DEF Keeps
<1>4. ASSUME NEW q \in Requests, NEW k \in IssuedKeys, NEW list \in TargetLists, CreateTenant(q, k, list)
      PROVE  TableOK(tenants') /\ Keeps(tenants, tenants')
  <2> DEFINE row == [name |-> request[q].name, key |-> k, targets |-> list]
  <2>1. tenants' = tenants \cup {row} /\ Insertable({row}) /\ request[q].at = "creating"
    BY <1>4 DEF CreateTenant, Commit
  <2>2. row \in Row
    BY <2>1 DEF IInv, RequestsKnow, Row, Keys, TenancyAssumption
  <2>3. \A s \in tenants : \E r \in tenants : s.name = r.name /\ s.key = r.key
    OBVIOUS
  <2> HIDE DEF row
  <2>4. TableOK(tenants')
    BY <1>1, <2>1, <2>2, <2>3, RowsInserted
  <2>5. QED
    BY <2>1, <2>4 DEF Keeps
<1>5. ASSUME NEW q \in Requests, NEW list \in TargetLists, UpdateTargets(q, list)
      PROVE  TableOK(tenants') /\ Keeps(tenants, tenants')
  <2>1. tenants' = Rewritten(request[q].tenant, request[q].seen, list)
    BY <1>5 DEF UpdateTargets, Commit
  <2>2. list \in SUBSET Entries
    BY DEF TenancyAssumption
  <2>3. QED
    BY <1>1, <1>2, <2>1, <2>2, RowsRewritten DEF Rewritten
<1>6. QED
  BY <1>2, <1>3, <1>4, <1>5
  DEF Next, ProcessStep, RequestStep, Boot, SelectKey, ProvisioningFails, Crash, Redeploy,
      Authenticate, LookUpName, LoadTenant, CreateCampaign, Finish, table

LEMMA TheTenant ==
  ASSUME TypeOK, NEW k, HasTenant(k)
  PROVE  TenantOf(k) \in tenants /\ TenantOf(k).key = k /\ TenantOf(k).targets \in SUBSET Entries
<1>1. TenantOf(k) \in tenants /\ TenantOf(k).key = k
  BY DEF HasTenant, TenantOf
<1>2. QED
  BY <1>1 DEF TypeOK, Row

\* What a commit leaves in held: lists of rows that requests under way could see.
LEMMA CommitHolds ==
  ASSUME TypeOK, NEW rows, TableOK(rows), Commit(rows)
  PROVE  held' \in [Requests -> SUBSET Entries] /\ \A q \in Requests : held[q] \subseteq held'[q]
<1>1. \A r \in rows : r.targets \in SUBSET Entries
  BY DEF TableOK, Row
<1>2. \A q \in Requests : held[q] \in SUBSET Entries
  BY DEF TypeOK
<1>3. QED
  BY <1>1, <1>2 DEF Commit

-----------------------------------------------------------------------------
(* The processes.                                                           *)

\* Of a step only Look and the start of a process give a process something new.
LEMMA ProcessTypes ==
  ASSUME NEW at \in {"down", "selecting", "serving"}, NEW keys \in Configurations \cup {<<>>}
  PROVE  Process(at, keys) \in Progress
BY DEF Process, Progress

LEMMA LookTypes ==
  ASSUME TypeOK, TenancyAssumption, NEW p \in Processes,
         proc[p].next \in DOMAIN proc[p].keys
  PROVE  /\ proc[p].keys[proc[p].next] \in ConfigKeys
         /\ Look(proc[p], proc[p].keys[proc[p].next]) \in Progress
<1>1. /\ proc[p] \in Progress
      /\ proc[p].keys \in Configurations \cup {<<>>}
  BY DEF TypeOK, Progress
<1>2. proc[p].keys \in Configurations
  BY <1>1
<1>3. proc[p].keys[proc[p].next] \in ConfigKeys
  BY <1>2 DEF TenancyAssumption
<1>4. QED
  BY <1>1, <1>3 DEF Progress, Look, Keys

LEMMA ProcessStepTypes ==
  ASSUME TypeOK, TenancyAssumption, Next
  PROVE  proc' \in [Processes -> Progress]
<1>1. proc \in [Processes -> Progress] /\ deployed \in Configurations
  BY DEF TypeOK
<1>2. \A p \in Processes : proc[p].keys \in Configurations \cup {<<>>}
  BY <1>1 DEF Progress
<1>3. ASSUME NEW p \in Processes, Boot(p)
      PROVE  proc' \in [Processes -> Progress]
  BY <1>1, <1>3, ProcessTypes DEF Boot
<1>4. ASSUME NEW p \in Processes, SelectKey(p)
      PROVE  proc' \in [Processes -> Progress]
  BY <1>1, <1>4, LookTypes DEF SelectKey
<1>5. ASSUME NEW p \in Processes, CommitTenants(p)
      PROVE  proc' \in [Processes -> Progress]
  BY <1>1, <1>2, <1>5, ProcessTypes DEF CommitTenants
<1>6. ASSUME NEW p \in Processes, ProvisioningFails(p) \/ Crash(p)
      PROVE  proc' \in [Processes -> Progress]
  BY <1>1, <1>6, ProcessTypes DEF ProvisioningFails, Crash, StoppedProcess
<1>7. QED
  BY <1>1, <1>3, <1>4, <1>5, <1>6
  DEF Next, ProcessStep, RequestStep, Redeploy, Authenticate, LookUpName, CreateTenant,
      LoadTenant, UpdateTargets, CreateCampaign, Finish

-----------------------------------------------------------------------------
(* The requests.                                                            *)

LEMMA GoesTypes ==
  ASSUME TypeOK, NEW q \in Requests, NEW to \in ActiveRequest, Goes(q, to)
  PROVE  request' \in [Requests -> ActiveRequest]
BY DEF TypeOK, Goes

LEMMA RequestStepTypes ==
  ASSUME TypeOK, TenancyAssumption, Next
  PROVE  request' \in [Requests -> ActiveRequest]
<1>1. request \in [Requests -> ActiveRequest]
  BY DEF TypeOK
<1>2. Done \in ActiveRequest
  BY DEF Done, NewRequest, ActiveRequest
<1>3. ASSUME NEW q \in Requests, NEW k \in Keys, Authenticate(q, k) \/ LoadTenant(q, k)
      PROVE  request' \in [Requests -> ActiveRequest]
  <2>1. \A at \in {"authenticated", "updating"}, seen \in SUBSET Entries :
          About(at, k, seen) \in ActiveRequest
    BY DEF About, NewRequest, ActiveRequest
  <2>2. TenantOf(k).targets \in SUBSET Entries
    BY <1>3, TheTenant DEF Authenticate, LoadTenant
  <2>3. request[q].seen \in SUBSET Entries
    BY <1>1 DEF ActiveRequest
  <2>4. CASE Authenticate(q, k)
    BY <2>1, <2>2, <2>4, GoesTypes DEF Authenticate
  <2>5. CASE LoadTenant(q, k)
    <3> DEFINE seen == IF k = request[q].tenant THEN request[q].seen ELSE TenantOf(k).targets
    <3>1. seen \in SUBSET Entries
      BY <2>2, <2>3
    <3>2. Goes(q, About("updating", k, seen))
      BY <2>5 DEF LoadTenant
    <3>3. QED
      BY <2>1, <3>1, <3>2, GoesTypes
  <2>6. QED
    BY <1>3, <2>4, <2>5
<1>4. ASSUME NEW q \in Requests, NEW name \in Names, LookUpName(q, name)
      PROVE  request' \in [Requests -> ActiveRequest]
  <2>1. [NewRequest EXCEPT !.at = "creating", !.name = name] \in ActiveRequest
    BY DEF NewRequest, ActiveRequest
  <2>2. QED
    BY <1>1, <1>4, <2>1 DEF LookUpName, Goes
<1>5. ASSUME NEW q \in Requests, NEW target \in Targets, CreateCampaign(q, target)
      PROVE  request' \in [Requests -> ActiveRequest]
  <2>1. [NewRequest EXCEPT !.at = "granted", !.granted = target] \in ActiveRequest
    BY DEF NewRequest, ActiveRequest
  <2>2. QED
    BY <1>1, <1>5, <2>1 DEF CreateCampaign, Goes
<1>6. ASSUME NEW q \in Requests, Goes(q, Done)
      PROVE  request' \in [Requests -> ActiveRequest]
  BY <1>2, <1>6, GoesTypes
<1>7. QED
  BY <1>1, <1>3, <1>4, <1>5, <1>6
  DEF Next, ProcessStep, RequestStep, Boot, SelectKey, CommitTenants, ProvisioningFails, Crash,
      Redeploy, CreateTenant, UpdateTargets, Finish

\* The three actions that commit rows.
LEMMA Committers ==
  /\ \A p \in Processes : CommitTenants(p) => Commit(tenants')
  /\ \A q \in Requests, k \in IssuedKeys, list \in TargetLists : CreateTenant(q, k, list) => Commit(tenants')
  /\ \A q \in Requests, list \in TargetLists : UpdateTargets(q, list) => Commit(tenants')
BY DEF CommitTenants, CreateTenant, UpdateTargets, Commit

LEMMA HistoryTypes ==
  ASSUME IInv, TenancyAssumption, Next
  PROVE  /\ logged' \in [Keys -> SUBSET Entries]
         /\ muted' \subseteq Keys
         /\ held' \in [Requests -> SUBSET Entries]
<1>1. TypeOK
  BY DEF IInv
<1>2. /\ logged \in [Keys -> SUBSET Entries]
      /\ muted \subseteq Keys
      /\ held \in [Requests -> SUBSET Entries]
  BY <1>1 DEF TypeOK
<1>3. LocalTargets \in SUBSET Entries /\ TargetLists \subseteq SUBSET Entries
  BY DEF TenancyAssumption
<1>4. logged' \in [Keys -> SUBSET Entries]
  <2>1. ASSUME NEW p \in Processes, CommitTenants(p)
        PROVE  logged' \in [Keys -> SUBSET Entries]
    <3> DEFINE fresh(k) == \E r \in Provisioned(proc[p]) : r.key = k
    <3>1. logged' = [k \in Keys |-> IF fresh(k) THEN LocalTargets ELSE logged[k]]
      BY <2>1 DEF CommitTenants
    <3> HIDE DEF fresh
    <3>2. QED
      BY <1>2, <1>3, <3>1
  <2>2. ASSUME NEW q \in Requests, NEW k \in IssuedKeys, NEW list \in TargetLists, CreateTenant(q, k, list)
        PROVE  logged' \in [Keys -> SUBSET Entries]
    BY <1>2, <1>3, <2>2 DEF CreateTenant
  <2>3. ASSUME NEW q \in Requests, NEW list \in TargetLists, UpdateTargets(q, list)
        PROVE  logged' \in [Keys -> SUBSET Entries]
    BY <1>2, <1>3, <2>3 DEF UpdateTargets
  <2>4. QED
    BY <1>2, <2>1, <2>2, <2>3
    DEF Next, ProcessStep, RequestStep, Boot, SelectKey, ProvisioningFails, Crash,
        Redeploy, Authenticate, LookUpName, LoadTenant, CreateCampaign, Finish, table
<1>5. muted' \subseteq Keys
  <2>1. ASSUME NEW q \in Requests, NEW list \in TargetLists, UpdateTargets(q, list)
        PROVE  muted' \subseteq Keys
    BY <1>2, <2>1 DEF UpdateTargets, Misstated, IInv, RequestsKnow
  <2>2. QED
    BY <1>2, <2>1
    DEF Next, ProcessStep, RequestStep, Boot, SelectKey, CommitTenants, ProvisioningFails, Crash,
        Redeploy, Authenticate, LookUpName, CreateTenant, LoadTenant, CreateCampaign, Finish, table
<1>6. held' \in [Requests -> SUBSET Entries]
  <2>1. ASSUME NEW q \in Requests, NEW k \in Keys, Authenticate(q, k)
        PROVE  held' \in [Requests -> SUBSET Entries]
    BY <1>1, <1>2, <2>1, TheTenant DEF Authenticate
  <2>2. ASSUME Commit(tenants')
        PROVE  held' \in [Requests -> SUBSET Entries]
    BY <1>1, <2>2, TableStep, CommitHolds
  <2>3. ASSUME NEW q \in Requests, held' = [held EXCEPT ![q] = {}]
        PROVE  held' \in [Requests -> SUBSET Entries]
    BY <1>2, <2>3
  <2>4. QED
    BY <1>2, <2>1, <2>2, <2>3, Committers
    DEF Next, ProcessStep, RequestStep, Boot, SelectKey, ProvisioningFails, Crash, Redeploy,
        LookUpName, LoadTenant, CreateCampaign, Finish
<1>7. QED
  BY <1>4, <1>5, <1>6

LEMMA TypeStep ==
  ASSUME IInv, TenancyAssumption, Next
  PROVE  TypeOK'
<1>1. TypeOK
  BY DEF IInv
<1>2. /\ tenants' \subseteq Row
      /\ \A r, s \in tenants' : r = s \/ (r.name # s.name /\ r.key # s.key)
  BY <1>1, TableStep DEF TableOK
<1>3. deployed' \in Configurations
  BY <1>1
  DEF TypeOK, Next, ProcessStep, RequestStep, Boot, SelectKey, CommitTenants, ProvisioningFails,
      Crash, Redeploy, Authenticate, LookUpName, CreateTenant, LoadTenant, UpdateTargets,
      CreateCampaign, Finish
<1>4. development' = development
  BY DEF Next, ProcessStep, RequestStep, Boot, SelectKey, CommitTenants, ProvisioningFails,
         Crash, Redeploy, Authenticate, LookUpName, CreateTenant, LoadTenant, UpdateTargets,
         CreateCampaign, Finish
<1>5. changes' = changes \/ changes' = changes + 1
  BY DEF Next, ProcessStep, RequestStep, Boot, SelectKey, CommitTenants, ProvisioningFails,
         Crash, Redeploy, Authenticate, LookUpName, CreateTenant, LoadTenant, UpdateTargets,
         CreateCampaign, Finish
<1>6. QED
  <2>1. development' \in BOOLEAN /\ changes' \in Nat
    BY <1>1, <1>4, <1>5 DEF TypeOK
  <2>2. proc' \in [Processes -> Progress] /\ request' \in [Requests -> ActiveRequest]
    BY <1>1, ProcessStepTypes, RequestStepTypes
  <2>3. QED
    BY <1>2, <1>3, <2>1, <2>2, HistoryTypes DEF TypeOK

-----------------------------------------------------------------------------
(* What processes know.                                                     *)

LEMMA ProcessesStep ==
  ASSUME IInv, TenancyAssumption, Next
  PROVE  ProcessesKnow' /\ KeysProvisioned'
<1>1. TypeOK /\ TypeOK' /\ Keeps(tenants, tenants')
  BY TypeStep, TableStep DEF IInv
<1> DEFINE Has(k) == \E r \in tenants' : r.key = k
<1>2. \A k : HasTenant(k) => Has(k)
  BY <1>1 DEF Keeps, HasTenant
<1>3. development' = development
  BY DEF Next, ProcessStep, RequestStep, Boot, SelectKey, CommitTenants, ProvisioningFails,
         Crash, Redeploy, Authenticate, LookUpName, CreateTenant, LoadTenant, UpdateTargets,
         CreateCampaign, Finish
<1> DEFINE Knows(b) ==
             /\ b.next # 0
             /\ b.missing \subseteq DOMAIN b.keys
             /\ b.empty # {} => development
             /\ b.at = "selecting" =>
                  \A i \in DOMAIN b.keys : i < b.next /\ i \notin b.missing => Has(b.keys[i])
             /\ b.at = "serving" => \A i \in DOMAIN b.keys : Has(b.keys[i])
<1>4. \A p \in Processes : Knows(proc[p])
  BY <1>2 DEF IInv, ProcessesKnow, KeysProvisioned
<1>5. SUFFICES \A p \in Processes : Knows(proc'[p])
  BY <1>3 DEF ProcessesKnow, KeysProvisioned, HasTenant
<1>6. proc \in [Processes -> Progress]
  BY <1>1 DEF TypeOK
<1>7. \A at \in {"down", "selecting"}, keys \in Configurations \cup {<<>>} : Knows(Process(at, keys))
  <2>1. \A keys \in Configurations \cup {<<>>} : DOMAIN keys \subseteq Nat \ {0}
    BY DEF TenancyAssumption
  <2>2. QED
    BY <2>1 DEF Process
<1>8. ASSUME NEW p \in Processes, Boot(p)
      PROVE  \A o \in Processes : Knows(proc'[o])
  <2>1. proc' = [proc EXCEPT ![p] = Process("selecting", deployed)] /\ deployed \in Configurations
    BY <1>1, <1>8 DEF Boot, TypeOK
  <2> HIDE DEF Knows
  <2>2. QED
    BY <1>4, <1>6, <1>7, <2>1
<1>9. ASSUME NEW p \in Processes, ProvisioningFails(p) \/ Crash(p)
      PROVE  \A o \in Processes : Knows(proc'[o])
  <2>1. proc' = [proc EXCEPT ![p] = Process("down", <<>>)]
    BY <1>9 DEF ProvisioningFails, Crash, StoppedProcess
  <2> HIDE DEF Knows
  <2>2. QED
    BY <1>4, <1>6, <1>7, <2>1
<1>10. ASSUME NEW p \in Processes, SelectKey(p)
       PROVE  \A o \in Processes : Knows(proc'[o])
  <2> DEFINE looked == Look(proc[p], proc[p].keys[proc[p].next])
  <2>1. /\ proc' = [proc EXCEPT ![p] = looked]
        /\ proc[p].at = "selecting" /\ proc[p].next \in DOMAIN proc[p].keys
    BY <1>10 DEF SelectKey
  <2>2. proc[p].next \in Nat /\ proc[p].keys \in Configurations \cup {<<>>}
    BY <1>6 DEF Progress
  <2>3. DOMAIN proc[p].keys \subseteq Nat
    BY <2>2 DEF TenancyAssumption
  <2>4. Knows(looked)
    BY <1>2, <1>4, <2>1, <2>2, <2>3 DEF Look
  <2> HIDE DEF Knows, looked
  <2>5. QED
    BY <1>4, <1>6, <2>1, <2>4
<1>11. ASSUME NEW p \in Processes, CommitTenants(p)
       PROVE  \A o \in Processes : Knows(proc'[o])
  <2> DEFINE b == proc[p]
  <2>1. /\ proc' = [proc EXCEPT ![p] = Process("serving", b.keys)]
        /\ b.at = "selecting" /\ b.next \notin DOMAIN b.keys
        /\ Provisioned(b) \subseteq tenants'
    BY <1>11 DEF CommitTenants, Commit
  <2>2. b.next \in Nat \ {0} /\ b.keys \in Configurations \cup {<<>>}
    BY <1>6 DEF Progress, IInv, ProcessesKnow
  <2>3. b.keys \in Seq(ConfigKeys)
    <3>1. CASE b.keys = <<>>
      BY <3>1
    <3>2. CASE b.keys \in Configurations
      BY <3>2 DEF TenancyAssumption
    <3>3. QED
      BY <2>2, <3>1, <3>2
  <2>4. \A i \in DOMAIN b.keys : i < b.next
    BY <2>1, <2>2, <2>3
  <2>5. \A i \in b.missing : Has(b.keys[i])
    BY <2>1, NewRows
  <2>6. \A i \in DOMAIN b.keys : Has(b.keys[i])
    BY <1>4, <2>1, <2>4, <2>5
  <2>7. Knows(Process("serving", b.keys))
    BY <2>6 DEF Process
  <2> HIDE DEF Knows, b
  <2>8. QED
    BY <1>4, <1>6, <2>1, <2>7
<1>12. QED
  <2> HIDE DEF Knows
  <2>1. QED
    BY <1>4, <1>8, <1>9, <1>10, <1>11
    DEF Next, ProcessStep, RequestStep, Redeploy, Authenticate, LookUpName, CreateTenant,
        LoadTenant, UpdateTargets, CreateCampaign, Finish

-----------------------------------------------------------------------------
(* What requests know.                                                      *)

\* A campaign that is authorized is covered by an entry of the list.
LEMMA AuthorizedIsCovered ==
  ASSUME TenancyAssumption, NEW list \in SUBSET Entries, NEW target, Authorized(list, target)
  PROVE  \E e \in list : Covers(e, target, development)
<1>1. /\ Sorted[list] \in Seq(Entries) /\ Entries \subseteq Entry
      /\ {Sorted[list][i] : i \in DOMAIN Sorted[list]} = list
  BY DEF TenancyAssumption
<1>2. Sorted[list] \in Seq(Entry)
  BY <1>1
<1>3. PICK i \in DOMAIN Sorted[list] : Covers(Sorted[list][i], target, development)
  BY <1>2, AcceptedIsCovered DEF Authorized
<1>4. QED
  BY <1>1, <1>3

LEMMA RequestsStep ==
  ASSUME IInv, TenancyAssumption, Next
  PROVE  RequestsKnow' /\ GrantsHeld'
<1>1. TypeOK
  BY DEF IInv
<1>2. request \in [Requests -> ActiveRequest] /\ held \in [Requests -> SUBSET Entries]
  BY <1>1 DEF TypeOK
<1>3. development' = development
  BY DEF Next, ProcessStep, RequestStep, Boot, SelectKey, CommitTenants, ProvisioningFails,
         Crash, Redeploy, Authenticate, LookUpName, CreateTenant, LoadTenant, UpdateTargets,
         CreateCampaign, Finish
<1> DEFINE Knows(r, entries) ==
             /\ r.at = "authenticated" => r.seen \subseteq entries
             /\ r.at = "updating" => r.tenant \in Keys
             /\ r.at = "creating" => r.name \in Names
             /\ r.at = "granted" => \E e \in entries : Covers(e, r.granted, development)
<1>4. \A q \in Requests : Knows(request[q], held[q])
  BY DEF IInv, RequestsKnow, GrantsHeld
<1>5. \A r, small, large : Knows(r, small) /\ small \subseteq large => Knows(r, large)
  OBVIOUS
<1>6. \A entries : Knows(Done, entries)
  BY DEF Done, NewRequest
<1>7. SUFFICES \A q \in Requests : Knows(request'[q], held'[q])
  BY <1>3 DEF RequestsKnow, GrantsHeld
<1>8. ASSUME NEW q \in Requests, NEW k \in Keys, Authenticate(q, k)
      PROVE  \A o \in Requests : Knows(request'[o], held'[o])
  <2> DEFINE to == About("authenticated", k, TenantOf(k).targets)
  <2>1. request' = [request EXCEPT ![q] = to] /\ held' = [held EXCEPT ![q] = TenantOf(k).targets]
    BY <1>8 DEF Authenticate, Goes
  <2>2. Knows(to, TenantOf(k).targets)
    BY DEF About, NewRequest
  <2> HIDE DEF Knows, to
  <2>3. QED
    BY <1>2, <1>4, <2>1, <2>2
<1>9. ASSUME NEW q \in Requests, NEW k \in Keys, LoadTenant(q, k)
      PROVE  \A o \in Requests : Knows(request'[o], held'[o])
  <2> DEFINE seen == IF k = request[q].tenant THEN request[q].seen ELSE TenantOf(k).targets
             to == About("updating", k, seen)
  <2>1. request' = [request EXCEPT ![q] = to] /\ held' = [held EXCEPT ![q] = {}]
    BY <1>9 DEF LoadTenant, Goes
  <2>2. Knows(to, {})
    BY DEF About, NewRequest
  <2> HIDE DEF Knows, to
  <2>3. QED
    BY <1>2, <1>4, <2>1, <2>2
<1>10. ASSUME NEW q \in Requests, NEW name \in Names, LookUpName(q, name)
       PROVE  \A o \in Requests : Knows(request'[o], held'[o])
  <2> DEFINE to == [NewRequest EXCEPT !.at = "creating", !.name = name]
  <2>1. request' = [request EXCEPT ![q] = to] /\ held' = [held EXCEPT ![q] = {}]
    BY <1>10 DEF LookUpName, Goes
  <2>2. Knows(to, {})
    BY DEF NewRequest
  <2> HIDE DEF Knows, to
  <2>3. QED
    BY <1>2, <1>4, <2>1, <2>2
<1>11. ASSUME NEW q \in Requests, NEW target \in Targets, CreateCampaign(q, target)
       PROVE  \A o \in Requests : Knows(request'[o], held'[o])
  <2> DEFINE to == [NewRequest EXCEPT !.at = "granted", !.granted = target]
  <2>1. request' = [request EXCEPT ![q] = to] /\ held' = held
    BY <1>11 DEF CreateCampaign, Goes
  <2>2. \E e \in request[q].seen : Covers(e, target, development)
    BY <1>2, <1>11, AuthorizedIsCovered DEF CreateCampaign, ActiveRequest
  <2>3. request[q].seen \subseteq held[q]
    BY <1>4, <1>11 DEF CreateCampaign
  <2>4. Knows(to, held[q])
    BY <2>2, <2>3 DEF NewRequest
  <2> HIDE DEF Knows, to
  <2>5. QED
    BY <1>2, <1>4, <2>1, <2>4
<1>12. ASSUME NEW q \in Requests, Finish(q)
       PROVE  \A o \in Requests : Knows(request'[o], held'[o])
  <2>1. request' = [request EXCEPT ![q] = Done] /\ held' = [held EXCEPT ![q] = {}]
    BY <1>12 DEF Finish, Goes
  <2> HIDE DEF Knows
  <2>2. QED
    BY <1>2, <1>4, <1>6, <2>1
<1>13. ASSUME Commit(tenants'), request' = request \/ \E q \in Requests : Goes(q, Done)
       PROVE  \A o \in Requests : Knows(request'[o], held'[o])
  <2>1. \A o \in Requests : held[o] \subseteq held'[o]
    BY <1>1, <1>13, TableStep, CommitHolds
  <2>2. \A o \in Requests : request'[o] = request[o] \/ request'[o] = Done
    BY <1>2, <1>13 DEF Goes
  <2> HIDE DEF Knows
  <2>3. QED
    BY <1>4, <1>5, <1>6, <2>1, <2>2
<1>14. ASSUME request' = request, held' = held
       PROVE  \A o \in Requests : Knows(request'[o], held'[o])
  BY <1>4, <1>14
<1>15. QED
  <2> HIDE DEF Knows
  <2>1. ASSUME NEW p \in Processes, CommitTenants(p)
        PROVE  \A o \in Requests : Knows(request'[o], held'[o])
    BY <1>13, <2>1, Committers DEF CommitTenants
  <2>2. ASSUME NEW q \in Requests, NEW k \in IssuedKeys, NEW list \in TargetLists, CreateTenant(q, k, list)
        PROVE  \A o \in Requests : Knows(request'[o], held'[o])
    BY <1>13, <2>2, Committers DEF CreateTenant
  <2>3. ASSUME NEW q \in Requests, NEW list \in TargetLists, UpdateTargets(q, list)
        PROVE  \A o \in Requests : Knows(request'[o], held'[o])
    BY <1>13, <2>3, Committers DEF UpdateTargets
  <2>4. QED
    BY <1>8, <1>9, <1>10, <1>11, <1>12, <1>14, <2>1, <2>2, <2>3
    DEF Next, ProcessStep, RequestStep, Boot, SelectKey, ProvisioningFails, Crash, Redeploy

-----------------------------------------------------------------------------
(* The audit rows.                                                          *)

LEMMA LogStep ==
  ASSUME IInv, TenancyAssumption, Next
  PROVE  LogTellsTargets'
<1>1. TypeOK /\ TableOK(tenants) /\ logged \in [Keys -> SUBSET Entries]
  BY DEF IInv, TypeOK, TableOK
<1>2. \A r \in tenants : r.key \in Keys
  BY <1>1 DEF TableOK, Row
<1>3. development' = development
  BY DEF Next, ProcessStep, RequestStep, Boot, SelectKey, CommitTenants, ProvisioningFails,
         Crash, Redeploy, Authenticate, LookUpName, CreateTenant, LoadTenant, UpdateTargets,
         CreateCampaign, Finish
<1> DEFINE Told(r, log, repeated) ==
             r.targets = log[r.key] \/ r.key \in repeated \/ (development /\ r.targets = LocalTargets)
<1>4. \A r \in tenants : Told(r, logged, muted)
  BY DEF IInv, LogTellsTargets
<1>5. SUFFICES \A r \in tenants' : Told(r, logged', muted')
  BY <1>3 DEF LogTellsTargets
<1>6. ASSUME table' = table
      PROVE  \A r \in tenants' : Told(r, logged', muted')
  BY <1>4, <1>6 DEF table
<1>7. ASSUME NEW p \in Processes, CommitTenants(p)
      PROVE  \A r \in tenants' : Told(r, logged', muted')
  <2> DEFINE new == Provisioned(proc[p])
             changed == WithTargets(tenants, proc[p].empty, LocalTargets)
             fresh(k) == \E r \in new : r.key = k
  <2>1. /\ tenants' = changed \cup new /\ Insertable(new) /\ muted' = muted
        /\ logged' = [k \in Keys |-> IF fresh(k) THEN LocalTargets ELSE logged[k]]
    BY <1>7 DEF CommitTenants, Commit
  <2>2. \A r \in new : r.key \in Keys /\ r.targets = LocalTargets
    <3>1. new \subseteq Row /\ \A r \in new : r.targets = LocalTargets
      BY NewRows
    <3> HIDE DEF new
    <3>2. QED
      BY <3>1 DEF Row
  <2>3. \A r \in new : Told(r, logged', muted')
    BY <2>1, <2>2
  <2>4. LocalTargets \in SUBSET Entries
    BY DEF TenancyAssumption
  <2>5. ASSUME NEW s \in changed
        PROVE  Told(s, logged', muted')
    <3>1. PICK r \in tenants : /\ s.name = r.name /\ s.key = r.key
                               /\ s.targets = IF r.key \in proc[p].empty THEN LocalTargets ELSE r.targets
      BY <1>1, <2>4, RowsRewritten
    <3>2. CASE r.key \in proc[p].empty
      <4>1. development
        BY <3>2 DEF IInv, ProcessesKnow
      <4>2. QED
        BY <3>1, <3>2, <4>1
    <3>3. CASE r.key \notin proc[p].empty
      <4>1. ~fresh(r.key)
        BY <2>1 DEF Insertable
      <4>2. logged'[r.key] = logged[r.key]
        BY <1>2, <2>1, <4>1
      <4>3. Told(r, logged, muted)
        BY <1>4
      <4>4. QED
        BY <2>1, <3>1, <3>3, <4>2, <4>3
    <3>4. QED
      BY <3>2, <3>3
  <2> HIDE DEF changed, new, Told
  <2>6. QED
    BY <2>1, <2>3, <2>5
<1>8. ASSUME NEW q \in Requests, NEW k \in IssuedKeys, NEW list \in TargetLists, CreateTenant(q, k, list)
      PROVE  \A r \in tenants' : Told(r, logged', muted')
  <2> DEFINE row == [name |-> request[q].name, key |-> k, targets |-> list]
  <2>1. /\ tenants' = tenants \cup {row} /\ ~HasTenant(k) /\ muted' = muted
        /\ logged' = [logged EXCEPT ![k] = list]
    BY <1>8 DEF CreateTenant, Commit
  <2>2. logged'[k] = list
    BY <1>1, <2>1 DEF Keys
  <2>3. \A r \in tenants : logged'[r.key] = logged[r.key]
    BY <1>1, <1>2, <2>1 DEF HasTenant
  <2>4. QED
    BY <1>4, <2>1, <2>2, <2>3
<1>9. ASSUME NEW q \in Requests, NEW list \in TargetLists, UpdateTargets(q, list)
      PROVE  \A r \in tenants' : Told(r, logged', muted')
  <2> DEFINE k == request[q].tenant
  <2>1. /\ tenants' = Rewritten(k, request[q].seen, list)
        /\ logged' = [logged EXCEPT ![k] = list]
        /\ muted' = Misstated(k, request[q].seen, list)
        /\ k \in Keys /\ list \in SUBSET Entries
    BY <1>9 DEF UpdateTargets, Commit, IInv, RequestsKnow, TenancyAssumption
  <2> HIDE DEF k
  <2>2. CASE list = request[q].seen
    <3>1. /\ tenants' = tenants
          /\ muted' = IF TenantOf(k).targets # list THEN muted \cup {k} ELSE muted \ {k}
      BY <2>1, <2>2 DEF Rewritten, Misstated
    <3>2. SUFFICES ASSUME NEW r \in tenants
                   PROVE  Told(r, logged', muted')
      BY <3>1
    <3>3. CASE r.key = k
      <4>1. r = TenantOf(k) /\ logged'[r.key] = list
        BY <1>1, <2>1, <3>3 DEF TableOK, TenantOf
      <4>2. QED
        BY <3>1, <3>3, <4>1
    <3>4. CASE r.key # k
      <4>1. logged'[r.key] = logged[r.key]
        BY <1>1, <1>2, <2>1, <3>4
      <4>2. Told(r, logged, muted)
        BY <1>4
      <4>3. QED
        BY <3>1, <3>4, <4>1, <4>2
    <3>5. QED
      BY <3>3, <3>4
  <2>3. CASE list # request[q].seen
    <3>1. tenants' = WithTargets(tenants, {k}, list) /\ muted' = muted \ {k}
      BY <2>1, <2>3 DEF Rewritten, Misstated
    <3>2. SUFFICES ASSUME NEW s \in tenants'
                   PROVE  Told(s, logged', muted')
      OBVIOUS
    <3>3. PICK r \in tenants : s.key = r.key /\ s.targets = IF r.key \in {k} THEN list ELSE r.targets
      BY <1>1, <2>1, <3>1, RowsRewritten
    <3>4. CASE r.key = k
      BY <1>1, <2>1, <3>3, <3>4
    <3>5. CASE r.key # k
      <4>1. logged'[r.key] = logged[r.key]
        BY <1>1, <1>2, <2>1, <3>5
      <4>2. Told(r, logged, muted)
        BY <1>4
      <4>3. QED
        BY <3>1, <3>3, <3>5, <4>1, <4>2
    <3>6. QED
      BY <3>4, <3>5
  <2>4. QED
    BY <2>2, <2>3
<1>10. QED
  <2> HIDE DEF Told
  <2>1. QED
    BY <1>6, <1>7, <1>8, <1>9
    DEF Next, ProcessStep, RequestStep, Boot, SelectKey, ProvisioningFails, Crash, Redeploy,
        Authenticate, LookUpName, LoadTenant, CreateCampaign, Finish, table

-----------------------------------------------------------------------------
(* The theorems.                                                            *)

LEMMA InitOK ==
  ASSUME TenancyAssumption, Init
  PROVE  IInv
<1>1. proc \in [Processes -> Progress]
  BY ProcessTypes DEF Init, StoppedProcess
<1>2. request \in [Requests -> ActiveRequest]
  BY DEF Init, NewRequest, ActiveRequest
<1>3. TypeOK
  BY <1>1, <1>2 DEF Init, TypeOK, TenancyAssumption
<1>4. ProcessesKnow /\ KeysProvisioned
  BY DEF Init, ProcessesKnow, KeysProvisioned, StoppedProcess, Process
<1>5. RequestsKnow /\ GrantsHeld
  BY DEF Init, RequestsKnow, GrantsHeld, NewRequest
<1>6. LogTellsTargets
  BY DEF Init, LogTellsTargets
<1>7. QED
  BY <1>3, <1>4, <1>5, <1>6 DEF IInv

LEMMA InvStep ==
  ASSUME IInv, TenancyAssumption, [Next]_vars
  PROVE  IInv'
<1>1. CASE Next
  BY <1>1, TypeStep, ProcessesStep, RequestsStep, LogStep DEF IInv
<1>2. CASE UNCHANGED vars
  BY <1>2
  DEF IInv, TypeOK, ProcessesKnow, RequestsKnow, KeysProvisioned, LogTellsTargets, GrantsHeld,
      HasTenant, vars
<1>3. QED
  BY <1>1, <1>2

LEMMA TenancyInvariance == Spec => []IInv
<1>1. Init => IInv
  BY TenancyAssumption, InitOK
<1>2. IInv /\ [Next]_vars => IInv'
  BY TenancyAssumption, InvStep
<1>3. QED
  BY <1>1, <1>2, PTL DEF Spec

\* Every variable keeps its type, and the names and keys of tenants are unique.
THEOREM ColumnsUnique == Spec => []TypeOK
<1>1. IInv => TypeOK
  BY DEF IInv
<1>2. QED
  BY <1>1, TenancyInvariance, PTL

\* A process that serves has a tenant for each of its keys, whatever others did between its
\* SELECTs and its commit.
THEOREM ServesProvisioned == Spec => []KeysProvisioned
<1>1. IInv => KeysProvisioned
  BY DEF IInv
<1>2. QED
  BY <1>1, TenancyInvariance, PTL

\* The list of a tenant is the one in its latest audit row, with the two exceptions.
THEOREM AuditTellsTargets == Spec => []LogTellsTargets
<1>1. IInv => LogTellsTargets
  BY DEF IInv
<1>2. QED
  BY <1>1, TenancyInvariance, PTL

\* The target of a campaign was covered by an entry its tenant had during the request.
THEOREM GrantsWereHeld == Spec => []GrantsHeld
<1>1. IInv => GrantsHeld
  BY DEF IInv
<1>2. QED
  BY <1>1, TenancyInvariance, PTL

\* The check agrees with the meaning of every list that a tenant can come to have.
THEOREM CheckAlwaysAgrees == Spec => []CheckAgrees
<1>1. IInv => CheckAgrees
  <2>1. SUFFICES ASSUME IInv, NEW r \in tenants, NEW target \in Targets
                 PROVE  LET covered == \E e \in r.targets : Covers(e, target, development)
                        IN /\ Authorized(r.targets, target) => covered
                           /\ covered => \/ Authorized(r.targets, target)
                                         \/ \E e \in r.targets : Malformed(e) \/ SpellsDefault(e)
    BY DEF CheckAgrees
  <2>2. r.targets \in SUBSET Entries
    <3>1. r \in Row
      BY <2>1 DEF IInv, TypeOK
    <3>2. QED
      BY <3>1 DEF Row
  <2> DEFINE list == Sorted[r.targets]
  <2>3. /\ list \in Seq(Entries) /\ Entries \subseteq Entry /\ target \in TargetUrl
        /\ {list[i] : i \in DOMAIN list} = r.targets
    BY <2>2, TenancyAssumption DEF TenancyAssumption
  <2> HIDE DEF list
  <2>4. list \in Seq(Entry)
    BY <2>3
  <2>5. ASSUME NEW e \in r.targets, Covers(e, target, development),
               \A f \in r.targets : ~Malformed(f) /\ ~SpellsDefault(f)
        PROVE  Authorized(r.targets, target)
    <3>1. PICK c \in DOMAIN list : list[c] = e
      BY <2>3
    <3>2. \A i \in DOMAIN list : ~Malformed(list[i]) /\ ~SpellsDefault(list[i])
      BY <2>3, <2>5
    <3>3. IsAuthorizedTarget(list, target, development) = "yes"
      BY <2>3, <2>4, <2>5, <3>1, <3>2, CoveredIsAccepted
    <3>4. QED
      BY <3>3 DEF Authorized, list
  <2>6. Authorized(r.targets, target) => \E e \in r.targets : Covers(e, target, development)
    BY <2>2, TenancyAssumption, AuthorizedIsCovered
  <2>7. QED
    BY <2>5, <2>6
<1>2. QED
  BY <1>1, TenancyInvariance, PTL

\* No step takes a name or a key from the tenant that has it.
THEOREM KeysStay == Spec => TenantsKeepKeys
<1>1. IInv /\ [Next]_vars => [\A r \in tenants : \E s \in tenants' : s.name = r.name /\ s.key = r.key]_vars
  BY TenancyAssumption, TableStep DEF IInv, Keeps
<1>2. QED
  BY <1>1, TenancyInvariance, PTL DEF Spec, TenantsKeepKeys
=============================================================================
