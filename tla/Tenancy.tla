-------------------------------- MODULE Tenancy --------------------------------
(***************************************************************************)
(* Tenants and their keys: the API processes that provision the configured *)
(* keys before they serve (app/main.py, app/services/bootstrap.py), the    *)
(* requests they authenticate (app/core/security.py), tenant management    *)
(* (app/api/v1/tenants.py, app/services/tenant_service.py) and the target  *)
(* check of a new campaign (app/services/campaign_service.py).             *)
(*                                                                         *)
(* A key stands for its SHA-256 hash too.  It also identifies the tenant:  *)
(* api_key_hash is unique and nothing writes it again.                     *)
(***************************************************************************)
EXTENDS TargetAuthorization, FiniteSets

CONSTANTS
  Processes,        \* API processes
  Requests,         \* each arrives once
  ConfigKeys,       \* keys an operator may configure: their own, and issued ones
  IssuedKeys,       \* keys token_urlsafe may return
  NoKey,
  ConfiguredName,   \* ConfiguredName[i]: "configured-tenant-i"
  OtherNames,       \* other names of tenants
  NoName,
  Configurations,   \* the values HCVF_API_KEYS takes, as lists of keys
  Entries,          \* entries of authorized_targets that operators use
  Sorted,           \* Sorted[S]: the entries of S as a list, in Python's order of strings
  TargetLists,      \* lists that requests give, as sets: _normalize_targets
  Targets,          \* URLs that campaigns are created for
  NoTarget,
  LocalTargets,     \* _LOCAL_AUTHORIZED_TARGETS
  MaxChanges        \* bound on new configurations and lost processes

Keys == ConfigKeys \cup IssuedKeys
Names == {ConfiguredName[i] : i \in DOMAIN ConfiguredName} \cup OtherNames

ASSUME TenancyAssumption ==
  /\ NoKey \notin Keys /\ NoName \notin Names /\ NoTarget \notin Targets
  /\ Configurations \subseteq Seq(ConfigKeys)
  /\ \A keys \in Configurations : DOMAIN keys \subseteq DOMAIN ConfiguredName
  /\ Entries \subseteq Entry
  /\ Sorted \in [SUBSET Entries -> Seq(Entries)]
  /\ \A S \in SUBSET Entries : {Sorted[S][i] : i \in DOMAIN Sorted[S]} = S
  /\ Targets \subseteq TargetUrl
  /\ LocalTargets \in SUBSET Entries /\ TargetLists \subseteq SUBSET Entries
  /\ MaxChanges \in Nat

VARIABLES
  tenants,      \* the tenants table, a set of rows
  deployed,     \* HCVF_API_KEYS in the environment of a process that starts now
  development,  \* ENVIRONMENT is "development"
  proc,         \* the API processes
  request,      \* the requests
  changes,      \* how many of those there were
  logged,       \* of each tenant, the list in its latest audit row, or at creation
  muted,        \* tenants whose latest audit row repeats a list the row had lost (history)
  held          \* entries the caller of a request has had since its authentication (history)

vars == <<tenants, deployed, development, proc, request, changes,
          logged, muted, held>>
table == <<tenants, logged, muted>>

Row == [name : Names, key : Keys, targets : SUBSET Entries]

\* keys: settings.api_keys, read when the process starts.  next: the key provision_... has
\* reached.  missing: the positions of keys it found no tenant for.  empty: the keys of
\* tenants it is going to give LocalTargets to.
Process(at, keys) == [at |-> at, keys |-> keys, next |-> 1, missing |-> {}, empty |-> {}]
StoppedProcess == Process("down", <<>>)

\* tenant: the key of the caller, then of the tenant that is updated.  seen: that tenant's
\* targets as loaded.  name: of the tenant to create.  granted: the campaign's target.
NewRequest == [at |-> "new", tenant |-> NoKey, name |-> NoName,
               seen |-> {}, granted |-> NoTarget]
About(at, k, seen) == [NewRequest EXCEPT !.at = at, !.tenant = k, !.seen = seen]
Done == [NewRequest EXCEPT !.at = "done"]

Init ==
  /\ tenants = {}
  /\ deployed \in {keys \in Configurations : \A i \in DOMAIN keys : keys[i] \notin IssuedKeys}
  /\ development \in BOOLEAN
  /\ proc = [p \in Processes |-> StoppedProcess]
  /\ request = [q \in Requests |-> NewRequest]
  /\ changes = 0
  /\ logged = [k \in Keys |-> {}]
  /\ muted = {}
  /\ held = [q \in Requests |-> {}]

-----------------------------------------------------------------------------
(* The table.                                                               *)

HasTenant(k) == \E r \in tenants : r.key = k
TenantOf(k) == CHOOSE r \in tenants : r.key = k
Taken(name) == \E r \in tenants : r.name = name

\* Slip: the column name is not unique.
Insertable_KeyOnly(rows) ==
  \A r \in rows, s \in rows \cup tenants : r.key = s.key => r = s /\ s \notin tenants

\* The unique columns, checked when rows are inserted.
Insertable(rows) ==
  \A r \in rows, s \in rows \cup tenants :
    r.name = s.name \/ r.key = s.key => r = s /\ s \notin tenants

WithTargets(rows, keys, list) ==
  {IF r.key \in keys THEN [r EXCEPT !.targets = list] ELSE r : r \in rows}

\* The committed table, which requests under way could look at.
Commit(rows) ==
  /\ tenants' = rows
  /\ held' = [q \in Requests |->
       IF request[q].at = "authenticated"
       THEN held[q] \cup UNION {r.targets : r \in {s \in rows : s.key = request[q].tenant}}
       ELSE held[q]]

-----------------------------------------------------------------------------
(* Startup: main.py's lifespan provisions the configured keys, and serves.  *)

Boot(p) ==
  /\ proc[p].at = "down"
  /\ proc' = [proc EXCEPT ![p] = Process("selecting", deployed)]
  /\ UNCHANGED <<table, deployed, development, request, changes, held>>

\* Slip: the targets of a tenant are reset in every environment.
Look_EveryEnvironment(b, k) ==
  [at |-> b.at, keys |-> b.keys, next |-> b.next + 1,
   missing |-> IF HasTenant(k) THEN b.missing ELSE b.missing \cup {b.next},
   empty |-> IF HasTenant(k) /\ TenantOf(k).targets = {} THEN b.empty \cup {k} ELSE b.empty]

\* What the loop keeps of one SELECT, until the commit.  Nothing is flushed before
\* (autoflush=False).
Look(b, k) ==
  [at |-> b.at, keys |-> b.keys, next |-> b.next + 1,
   missing |-> IF HasTenant(k) THEN b.missing ELSE b.missing \cup {b.next},
   empty |-> IF development /\ HasTenant(k) /\ TenantOf(k).targets = {}
             THEN b.empty \cup {k} ELSE b.empty]

SelectKey(p) ==
  /\ proc[p].at = "selecting"
  /\ proc[p].next \in DOMAIN proc[p].keys
  /\ proc' = [proc EXCEPT ![p] = Look(proc[p], proc[p].keys[proc[p].next])]
  /\ UNCHANGED <<table, deployed, development, request, changes, held>>

Provisioned(b) ==
  {[name |-> ConfiguredName[i], key |-> b.keys[i], targets |-> LocalTargets] : i \in b.missing}

\* Slip: a name that is taken is given to the new key (an upsert by name).
CommitTenants_TakesOver(p) ==
  LET rows == Provisioned(proc[p])
      kept == {r \in tenants : \A s \in rows : s.name # r.name /\ s.key # r.key}
  IN
  /\ proc[p].at = "selecting"
  /\ proc[p].next \notin DOMAIN proc[p].keys
  /\ Commit(WithTargets(kept, proc[p].empty, LocalTargets) \cup rows)
  /\ logged' = [k \in Keys |-> IF \E r \in rows : r.key = k THEN LocalTargets ELSE logged[k]]
  /\ proc' = [proc EXCEPT ![p] = Process("serving", proc[p].keys)]
  /\ UNCHANGED <<deployed, development, request, changes, muted>>

\* The one commit of all INSERTs and UPDATEs.  Afterwards the process serves.
CommitTenants(p) ==
  LET rows == Provisioned(proc[p]) IN
  /\ proc[p].at = "selecting"
  /\ proc[p].next \notin DOMAIN proc[p].keys
  /\ Insertable(rows)
  /\ Commit(WithTargets(tenants, proc[p].empty, LocalTargets) \cup rows)
  /\ logged' = [k \in Keys |-> IF \E r \in rows : r.key = k THEN LocalTargets ELSE logged[k]]
  /\ proc' = [proc EXCEPT ![p] = Process("serving", proc[p].keys)]
  /\ UNCHANGED <<deployed, development, request, changes, muted>>

\* Slip: the error is caught, and the process serves.
ProvisioningFails_Serves(p) ==
  /\ proc[p].at = "selecting"
  /\ proc[p].next \notin DOMAIN proc[p].keys
  /\ ~Insertable(Provisioned(proc[p]))
  /\ proc' = [proc EXCEPT ![p] = Process("serving", proc[p].keys)]
  /\ UNCHANGED <<table, deployed, development, request, changes, held>>

\* Slip: the commit is tried again without the SELECTs.
ProvisioningFails_SameRows(p) ==
  /\ proc[p].at = "selecting"
  /\ proc[p].next \notin DOMAIN proc[p].keys
  /\ ~Insertable(Provisioned(proc[p]))
  /\ UNCHANGED vars

\* IntegrityError: everything is rolled back and the process ends.  Docker starts it
\* again.
ProvisioningFails(p) ==
  /\ proc[p].at = "selecting"
  /\ proc[p].next \notin DOMAIN proc[p].keys
  /\ ~Insertable(Provisioned(proc[p]))
  /\ proc' = [proc EXCEPT ![p] = StoppedProcess]
  /\ UNCHANGED <<table, deployed, development, request, changes, held>>

\* A process ends, by accident or to be started with a new configuration.
Crash(p) ==
  /\ proc[p].at # "down"
  /\ changes < MaxChanges
  /\ changes' = changes + 1
  /\ proc' = [proc EXCEPT ![p] = StoppedProcess]
  /\ UNCHANGED <<table, deployed, development, request, held>>

\* The operator changes HCVF_API_KEYS.  A key that POST /tenants returned must be put
\* there before it is accepted; nobody knows it earlier.
Redeploy(keys) ==
  /\ changes < MaxChanges
  /\ \A i \in DOMAIN keys : keys[i] \in IssuedKeys => HasTenant(keys[i])
  /\ changes' = changes + 1
  /\ deployed' = keys
  /\ UNCHANGED <<table, development, proc, request, held>>

-----------------------------------------------------------------------------
(* Requests.                                                                *)

Goes(q, to) == request' = [request EXCEPT ![q] = to]

\* get_current_tenant: the key is configured in the process that serves the request and
\* has a tenant.  (401 changes nothing.)
Authenticate(q, k) ==
  /\ request[q].at = "new"
  /\ \E p \in Processes : proc[p].at = "serving" /\ \E i \in DOMAIN proc[p].keys : proc[p].keys[i] = k
  /\ HasTenant(k)
  /\ Goes(q, About("authenticated", k, TenantOf(k).targets))
  /\ held' = [held EXCEPT ![q] = TenantOf(k).targets]
  /\ UNCHANGED <<table, deployed, development, proc, changes>>

\* create_tenant: SELECT by name.  (A name that is taken is answered with 409.)
LookUpName(q, name) ==
  /\ request[q].at = "authenticated"
  /\ ~Taken(name)
  /\ Goes(q, [NewRequest EXCEPT !.at = "creating", !.name = name])
  /\ held' = [held EXCEPT ![q] = {}]
  /\ UNCHANGED <<table, deployed, development, proc, changes>>

\* flush, audit row and commit.  The key is random: no row has it.
CreateTenant(q, k, list) ==
  LET row == [name |-> request[q].name, key |-> k, targets |-> list] IN
  /\ request[q].at = "creating"
  /\ ~HasTenant(k)
  /\ Insertable({row})
  /\ Commit(tenants \cup {row})
  /\ logged' = [logged EXCEPT ![k] = list]
  /\ Goes(q, Done)
  /\ UNCHANGED <<deployed, development, proc, changes, muted>>

\* PATCH: the tenant is loaded, except that the caller's own is in the session since its
\* authentication.
LoadTenant(q, k) ==
  /\ request[q].at = "authenticated"
  /\ HasTenant(k)
  /\ Goes(q, About("updating", k,
                   IF k = request[q].tenant THEN request[q].seen ELSE TenantOf(k).targets))
  /\ held' = [held EXCEPT ![q] = {}]
  /\ UNCHANGED <<table, deployed, development, proc, changes>>

\* SQLAlchemy emits no UPDATE for a column set to the value that was loaded.
Rewritten(k, seen, list) ==
  IF list = seen THEN tenants ELSE WithTargets(tenants, {k}, list)

\* Tenants whose list the audit row misstates: this update writes nothing because it
\* repeats the list it loaded, which the row has lost since.
Misstated(k, seen, list) ==
  IF list = seen /\ TenantOf(k).targets # list THEN muted \cup {k} ELSE muted \ {k}

\* Slip: the audit row is made before the assignment.
UpdateTargets_AuditFirst(q, list) ==
  LET k == request[q].tenant IN
  /\ request[q].at = "updating"
  /\ Commit(Rewritten(k, request[q].seen, list))
  /\ logged' = [logged EXCEPT ![k] = request[q].seen]
  /\ muted' = Misstated(k, request[q].seen, list)
  /\ Goes(q, Done)
  /\ UNCHANGED <<deployed, development, proc, changes>>

\* update_authorized_targets: the list and its audit row in one commit.
UpdateTargets(q, list) ==
  LET k == request[q].tenant IN
  /\ request[q].at = "updating"
  /\ Commit(Rewritten(k, request[q].seen, list))
  /\ logged' = [logged EXCEPT ![k] = list]
  /\ muted' = Misstated(k, request[q].seen, list)
  /\ Goes(q, Done)
  /\ UNCHANGED <<deployed, development, proc, changes>>

\* The check walks through the list in the order of sorted(), which JSON arrays keep.
Authorized(list, target) == IsAuthorizedTarget(Sorted[list], target, development) = "yes"

\* Slip: a check that raises is no refusal.
CreateCampaign_RaiseIsYes(q, target) ==
  /\ request[q].at = "authenticated"
  /\ IsAuthorizedTarget(Sorted[request[q].seen], target, development) # "no"
  /\ Goes(q, [NewRequest EXCEPT !.at = "granted", !.granted = target])
  /\ UNCHANGED <<table, deployed, development, proc, changes, held>>

\* POST /campaigns: the target is judged by the list loaded at authentication.  (A
\* refused campaign changes nothing.)
CreateCampaign(q, target) ==
  /\ request[q].at = "authenticated"
  /\ Authorized(request[q].seen, target)
  /\ Goes(q, [NewRequest EXCEPT !.at = "granted", !.granted = target])
  /\ UNCHANGED <<table, deployed, development, proc, changes, held>>

\* The response; or 401, 404, 409, 422 and 500, which leave no trace in the table.
Finish(q) ==
  /\ request[q].at \notin {"new", "done"}
  /\ Goes(q, Done)
  /\ held' = [held EXCEPT ![q] = {}]
  /\ UNCHANGED <<table, deployed, development, proc, changes>>

-----------------------------------------------------------------------------

ProcessStep(p) == Boot(p) \/ SelectKey(p) \/ CommitTenants(p) \/ ProvisioningFails(p)

RequestStep(q) ==
  \/ \E k \in Keys : Authenticate(q, k) \/ LoadTenant(q, k)
  \/ \E name \in Names : LookUpName(q, name)
  \/ \E k \in IssuedKeys, list \in TargetLists : CreateTenant(q, k, list)
  \/ \E list \in TargetLists : UpdateTargets(q, list)
  \/ \E target \in Targets : CreateCampaign(q, target)
  \/ Finish(q)

Next ==
  \/ \E p \in Processes : ProcessStep(p) \/ Crash(p)
  \/ \E keys \in Configurations : Redeploy(keys)
  \/ \E q \in Requests : RequestStep(q)

Spec == Init /\ [][Next]_vars

\* Docker starts a process that has ended again (restart: unless-stopped), and PostgreSQL
\* answers.
FairSpec == Spec /\ \A p \in Processes : WF_vars(ProcessStep(p))

-----------------------------------------------------------------------------

Progress == [at : {"down", "selecting", "serving"},
             keys : Configurations \cup {<<>>},
             next : Nat,
             missing : SUBSET Nat,
             empty : SUBSET Keys]

ActiveRequest == [at : {"new", "done", "authenticated", "creating", "updating", "granted"},
                  tenant : Keys \cup {NoKey},
                  name : Names \cup {NoName},
                  seen : SUBSET Entries,
                  granted : Targets \cup {NoTarget}]

\* The columns are unique, whatever is inserted at the same time.
TypeOK ==
  /\ tenants \subseteq Row
  /\ \A r, s \in tenants : r = s \/ (r.name # s.name /\ r.key # s.key)
  /\ deployed \in Configurations
  /\ development \in BOOLEAN
  /\ proc \in [Processes -> Progress]
  /\ request \in [Requests -> ActiveRequest]
  /\ changes \in Nat
  /\ logged \in [Keys -> SUBSET Entries]
  /\ muted \subseteq Keys
  /\ held \in [Requests -> SUBSET Entries]

\* README.md:55: a process that serves has found or made a tenant for each of its keys, in
\* spite of the time between its SELECTs and its commit.
KeysProvisioned ==
  \A p \in Processes :
    proc[p].at = "serving" => \A i \in DOMAIN proc[p].keys : HasTenant(proc[p].keys[i])

\* The tenant of a key stays the same for ever: no startup, rotation or request takes a
\* name or a key from one tenant and gives it to another.
TenantsKeepKeys ==
  [][\A r \in tenants : \E s \in tenants' : s.name = r.name /\ s.key = r.key]_vars

\* What a tenant is authorized for is what its audit rows say: row and audit row are one
\* commit (tenant_service.py:52 and :84), and README.md:277 promises that such requests
\* are recorded.  There are two exceptions.  An update that repeats the list its request
\* had loaded is audited, but leaves what others wrote since.  And in development a
\* startup gives a tenant without targets the local ones.
LogTellsTargets ==
  \A r \in tenants :
    \/ r.targets = logged[r.key]
    \/ r.key \in muted
    \/ development /\ r.targets = LocalTargets

\* A campaign's target was covered by an entry its tenant had at some moment of the
\* request: a list that is changed at the same time may still count, an older one not.
GrantsHeld ==
  \A q \in Requests :
    request[q].at = "granted" =>
      \E e \in held[q] : Covers(e, request[q].granted, development)

\* The check agrees with what the list means, except that it refuses a target when an entry
\* is malformed or spells out its default port.
CheckAgrees ==
  \A r \in tenants, target \in Targets :
    LET covered == \E e \in r.targets : Covers(e, target, development)
    IN /\ Authorized(r.targets, target) => covered
       /\ covered => \/ Authorized(r.targets, target)
                     \/ \E e \in r.targets : Malformed(e) \/ SpellsDefault(e)

\* A configured key that has no tenant and can get none: its name is taken, or it is
\* configured twice.
Clash ==
  \E i \in DOMAIN deployed :
    /\ ~HasTenant(deployed[i])
    /\ \/ Taken(ConfiguredName[i])
       \/ \E j \in DOMAIN deployed \ {i} : deployed[j] = deployed[i]

\* Processes that start at the same time insert the same tenants, and all but one fail:
\* still each of them serves in the end, unless the configuration clashes with the table.
ProcessesServe == \A p \in Processes : []<>(proc[p].at = "serving" \/ Clash)

\* README.md:55: "each configured key is hashed with SHA-256 and provisioned to a tenant
\* record" at application bootstrap.
ConfiguredKeysServed == \A p \in Processes : []<>(proc[p].at = "serving")
=============================================================================
