# HCVF control plane: TLA+ models, model checks and proofs

HCVF runs *campaigns*: a tenant registers a target it owns, attests that it is
authorized, and the platform fetches that target once per *run* and stores a
*finding*. The code is a FastAPI application (`app/`), a Celery worker and a
scheduler process (`worker/`), PostgreSQL and Redis. Almost everything that can go
wrong lies between the processes: rows are read without locks and written later,
a commit and the publication that depends on it are two steps, messages are
delivered at least once. That is modelled here, and with it tenants, their keys and what
they are authorized for, and the three primitives whose correctness is a matter of
interleaving too: circuit breaker, distributed lock and rate limiter.

All paths below are relative to the repository root.

## 1. The system: inventory

| Component | Code | State | Operations | Why it is hard |
|---|---|---|---|---|
| Campaign service and endpoints | `app/services/campaign_service.py`, `app/api/v1/campaigns.py` | one session per request | create, cancel, execute (list, get read only) | decides on a status read earlier without a lock; publishes after its commit |
| Scheduler | `worker/scheduler.py`, `claim_due_campaigns` | the runs it still has to publish | claim due drafts (`FOR UPDATE SKIP LOCKED`), dispatch | several processes; crash between claim, commit and each publication |
| Worker | `worker/tasks.py`, `worker/pipeline.py`, `worker/fuzz_runner.py` | the task being executed | three transactions around an HTTP call, failure handler, retry | redelivery, retries of work already committed, two executions of one run |
| Queue | `worker/celery_app.py` (Celery on Redis) | ready and unacknowledged messages | publish, deliver, acknowledge, redeliver | at least once, any order |
| Database | `app/models/*.py`, `app/db/session.py` | tenants, campaigns, runs, findings, audit log | transactions of the others | READ COMMITTED: no lost-update protection |
| Circuit breaker, health | `app/core/circuit_breaker.py`, `app/api/v1/health.py` | state, failure count, opening time, under a lock | call, record success or failure, read the state | the lock is free while the call runs |
| Distributed lock | `app/core/distributed_lock.py` | a Redis key with expiry, `acquired` per object | acquire, release | expiry while held, lost answers |
| Rate limiter | `app/core/rate_limit.py` | a Redis counter per identity and window | check | window boundary; INCR and EXPIRE are two calls |
| Middleware stack | `app/main.py`, `app/core/audit_middleware.py`, `security_headers.py`, `request_id.py` | audit rows | wrap every request | order of the layers; exceptions pass some of them by |
| Tenancy and keys | `app/services/tenant_service.py`, `bootstrap.py`, `app/core/security.py` | tenants, unique names and key hashes, configured keys | create, update targets, provision at startup, authenticate | check-then-insert, several processes at startup, key rotation |
| Run and finding retrieval | `app/services/run_service.py`, `app/api/v1/campaign_runs.py` | none | single SELECTs | none |
| Retry utility | `app/core/retry.py` | none | bounded loop | none; it has no caller |
| Logging, metrics, errors, configuration | `app/core/*.py` | counters | formatting | none |
| Migrations | `alembic/` | none | a chain of revisions | static |

What makes each part correct:

- *Campaigns and runs.* A campaign's status agrees with one of its runs. A run that
  has not ended is in somebody's hands. A cancellation stands. A due campaign is
  claimed, and once. A run ends. Repeated executions are paid for by faults.
- *Breaker.* It refuses exactly after a full streak of failures whose latest is younger
  than the timeout, in whatever order results arrive; a dependency that is back is used
  again; health says ok for a dependency that answered.
- *Lock.* At most one owner inside the expiry; only the owner releases; the lock of a dead
  owner becomes free.
- *Limiter and middlewares.* Not more than the limit per window; every response
  carries its headers; every mutation is audited.
- *Tenancy.* Names and keys are unique whatever the interleaving; a key never comes to
  mean another tenant; a configured key authenticates its tenant after any rotation; a
  campaign's target was authorized while its request ran, and the audit rows tell by what.

## 2. Modules

```
Store            tables, row locks, faults                (app/models, PostgreSQL)
 └─ Broker       messages                                 (Celery on Redis)
     ├─ CampaignApi   requests                            (campaigns.py, campaign_service.py)
     ├─ Scheduler     scheduler processes                 (scheduler.py, claim_due_campaigns)
     └─ Worker        worker slots                        (tasks.py, pipeline.py)
          └─ ControlPlane   all of them, properties       (docker-compose.yml)
               ├─ MCControlPlane      symmetry for TLC
               └─ ControlPlaneProofs  theorems about tables and actors
                    └─ CarrierProofs  theorems about who carries a run
RunLedger        what the tables promise, no processes    (instantiated by ControlPlane)

CircuitBreaker   attributes, the lock sections of call    (circuit_breaker.py)
 └─ Health       requests over two breakers, properties   (health.py)
      └─ HealthProofs
FailureStreak    what a breaker promises, no states       (instantiated by Health)

DistributedLock  clients over one key, properties         (distributed_lock.py)
 └─ DistributedLockProofs

Middleware       limiter and layers around an endpoint    (rate_limit.py, main.py)
 └─ MiddlewareProofs

SetSizes         how the size of a finite set changes     (CarrierProofs, MiddlewareProofs)

TargetAuthorization  the target check, what it should mean (campaign_service.py)
 ├─ TargetAuthorizationProofs
 └─ Tenancy      startup, keys, tenants, new campaigns    (bootstrap.py, security.py, tenant_service.py)
      ├─ MCTenancy        URLs and configurations for TLC
      └─ TenancyProofs
```

The five groups share no state that either writes: the health endpoint opens sessions of
its own, nothing in the repository takes a `DistributedLock`, the limiter has Redis keys of
its own, and the tenants table is read by the core only where a campaign is created.
`ControlPlane` begins with campaigns that were authorized; `Tenancy` is where that is decided.

Every actor has one variable (`api`, `sched`, `worker`), a function from its
processes to a record with a program counter. An action is what happens between two
points where another process can see or change something.

| Code | Model |
|---|---|
| `create_campaign`: checks, INSERT, commit | `CreateCampaign`. The target check and the attestation come before the first state change, so a rejected request does nothing. Attestation is true in every stored row and never written again, so it is left out of the row. |
| `get_campaign`, then `cancel_campaign` / `create_run` | `ApiLoad` remembers the status in `seen`; `Accepts` is the code's guards on that value; `ApiReject` is the 409; `ApiCancel`, `ApiExecute` commit over whatever the row holds by then. |
| `campaign.status = queued` when it already was | `QueuedFrom`: SQLAlchemy emits no UPDATE for an unchanged column, so the other writer's value survives. |
| `execute_campaign.delay` after the commit | `ApiPublish`; `ApiFails` is a request that ends before it. |
| `claim_due_campaigns` | `SchedSelect` locks a batch of at most `Limit` rows and skips locked ones; `SchedCommit` queues all and inserts all runs; `SchedClaimFails` rolls back. |
| `for run in runs: delay` | `SchedDispatch`, one message per step, in any order (the claim has no ORDER BY); `SchedDispatchFails` is an exception caught by `main()`, which forgets the rest. |
| process start and end | `SchedBoot`, `SchedCrash`. |
| `execute`, first transaction | `StartRun`: one step. The run row is locked from the SELECT on; nothing else is tested; the step stands at the commit. If the campaign was already `running` when it was loaded, no UPDATE of it follows, and the step stands at the load. |
| `runner.run` | answers (`Complete`) or raises (`FetchFails`). |
| second transaction: finding, run, campaign | `Complete`: blind writes, since the session holds `running` for both. |
| `except`: rollback, `db.get`, write failed | If the runner raised, no transaction is open: the rollback does nothing, `db.get` answers from the session, and both rows will be written without a look (`HandleUnread` in `FetchFails`). After a commit that broke, the rollback expires the rows and they are read again: `LoadFailed` notes which differ from `failed` (`dirty`). `RecordFailure` writes the dirty ones, in a step of its own, since no lock is held in between. |
| `raise`, Celery `autoretry_for=(OperationalError,)` | `error` is `"db"` or `"task"`; only `"db"` leads to `Retry`, up to `MaxRetries`. `CompleteFails` has either, and the commit may have been applied. |
| `db.refresh` after the try | `RefreshRun`, `RefreshFails`. |
| `acks_late` | the message leaves the broker with the worker (`WorkerTake`) and comes back through `abandoned` and `Redeliver` when the worker is gone (`WorkerCrash`) or cut off (`ConnectionLost`). `Ack` ends it. |
| hard time limit, death of the child process | `ChildLost`: the parent acknowledges, nothing recorded the end. |
| soft time limit (an exception wherever the task is) | in the fetch `FetchFails`, in the commit of the result `CompleteFails` with `"task"`, after it `LateTimeLimit`, outside the `try` `ChildLost`: the task raises RuntimeError, which is not retried, and the message is acknowledged. |

Faults are actions. Each consumes one of `MaxFaults` and belongs to a kind in
`Faults`: `api` (a request ends early), `sched` (a scheduler fails or dies), `crash`
(a worker dies or is cut off), `lost` (a task ends and records nothing), `time` (the soft
time limit strikes in or after the commit of the result), `db` (an OperationalError;
at a commit the transaction may have been applied or not), `broker` (a retry cannot
be published). A deadlock in PostgreSQL is one more OperationalError and so a `db`
fault. `RetriesExhausted` is no fault of its own: it needs earlier ones.

`dropped` and `duplicated` are history variables. `dropped` collects the runs whose
last carrier was given up in one of the gaps that the code does not close;
`duplicated` those whose message came back although an execution of it goes on, or a
retry of it is in the queue. No action reads them.

A definition named `X_...` and marked *Slip* is `X` with one plausible mistake. It is
not part of the system; replacing `X` by it must break the property that is there to
catch the mistake.

### Circuit breaker and health

`breaker` holds the three attributes, `call` where each thread stands in
`CircuitBreaker.call`. `_opened_at` is kept as the time since then, up to
`RecoveryTimeout`, and `_failure_count` up to `FailureThreshold`: the code compares them
with nothing else, so nothing is lost and no counter needs a bound.

| Code | Model |
|---|---|
| first lock section of `call` | `Admit`: `_current_state` may turn open into half-open; open refuses, half-open admits every thread. |
| `func(...)` outside the lock | `Return`, `Raise`; in `Health` by `CheckAnswers` while the dependency is `up`, `CheckRaises` while it is not. |
| `record_success`, `record_failure` | `RecordSuccess`, `RecordFailure`: a step of their own, any time later. `AfterFailure` looks at `_state` as it was left, not at the recomputed state. |
| the property `state`, read for the report | `ReadState`, in `Report`: a third lock section that may change the state. |
| `health()` | `Begin`, then `Ask`, the check, `Record` and `Report` for postgres, then for redis. |
| `time.monotonic()` | `Tick`, for both breakers at once. |

The reported `circuit` value is left out: it is read after the result is known, so that
an ok dependency may be reported with an open circuit, and no document says otherwise.

### Distributed lock

A method sends one command (`CallAcquire`, `CallRelease`), Redis executes it
(`ExecuteAcquire`, `ExecuteRelease`), the answer arrives (`Granted`, `Denied`,
`ReleaseReturns`). At any point in between the connection may break (`CallBreaks`): the
method raises before it assigns `acquired`, and a command not yet executed is lost or
stays in `late`, from where Redis may execute it at any time. redis-py does not send
it again (no retry is configured). `late` holds at most one command of a kind per
client: that is the only bound. Clients call the two methods in any order, which
covers `with`. `sent`, `since` and `undone` are history.

### Rate limiter and middlewares

`main.py` adds the layers so that a request meets the identifier, the limiter, the audit
and the security headers in this order, and a response the reverse.

| Code | Model |
|---|---|
| `dispatch` up to the first `await` | `Arrive` fixes the key: identity and current window. `ArriveExempt` is `/health`, `/metrics`. |
| `incr`, `expire` | `Incr`, `Expire`, one command each; the first request of a key sets its expiry. `RedisFails` is the `except`, with the command executed or not. |
| `count > limit` | `Decide` |
| `call_next`, headers, audit | `Answer` stands for the endpoint, Starlette's handlers of `HTTPException` and the headers; `AuditAndRespond` for the audit commit (if any) and the way out. `EndpointRaises`, `AuditFails` are exceptions none of them handles. |
| outside all middlewares | `ServerError`, Starlette's own 500. |

The clock counts windows up to `LastWindow`. `KeyExpires`: `window_seconds + 1` after
`EXPIRE` is never in the same window. `created`, `passed` and `failed` are history.

### Tenants, keys and targets

`tenants` is a set of rows: name, key (for its hash) and list of targets, as a set. `proc`
holds the API processes, `request` where each request stands.

| Code | Model |
|---|---|
| `main.py`'s lifespan, `settings.api_keys` | `Boot` reads the configuration deployed at that moment; `Redeploy` changes it for processes that start later; a key that `POST /tenants` issues can be among them once it was issued. |
| the loop of `provision_configured_tenants` | `SelectKey`, one SELECT per step. `Look` is what is kept of it: the position of a key without tenant, or a tenant to give the local targets to. Nothing is flushed before the commit (`autoflush=False`), so that a key listed twice is missing twice. |
| `db.commit()` | `CommitTenants`: INSERTs and UPDATEs at once, `Insertable` being the unique columns. `ProvisioningFails` is the IntegrityError: the process ends and Docker starts it again. |
| `get_current_tenant` | `Authenticate`: the key is in the configuration of the process and has a tenant, which is now loaded (`seen`). |
| `create_tenant` | `LookUpName`, then `CreateTenant`, flush and commit, with the same `Insertable`. |
| PATCH | `LoadTenant`: another tenant is read now, the caller's own is the object authentication loaded. `UpdateTargets` writes blindly, but not at all (`Rewritten`) when the new list equals the loaded one. |
| `_normalize_targets` | requests give sets; `Sorted` is `sorted()`, as a function from sets to lists. |
| `create_campaign` | `CreateCampaign`: `IsAuthorizedTarget` over the list as loaded. |
| 401, 404, 409, 422, 500 | the request takes no step, or `Finish`. |

`IsAuthorizedTarget` is the loop of `_is_authorized_target`: the first entry that accepts
or raises ends it. A URL is its scheme, host and port as `urlsplit` returns them: `NoPort`
is `None`, `BadPort` a port whose reading raises, `Unparsable` an entry that makes
`urlsplit` itself raise. `TargetUrl` is what pydantic's `HttpUrl` lets through: it drops a
default port. Beside the code stands what it should mean: `Covers`, same scheme, host
and port, a URL without port having that of its scheme.

`logged` is the list in the latest audit row about a tenant (or the one it was created with).
`muted` and `held` are history: tenants whose latest update repeated a list their row had lost
(`Misstated`), and the entries the caller has had since its authentication.

### Left out of the core

Timestamps, `error_message`, `http_status`, severity, audit rows, metrics and log
lines: no property tells them apart yet. The run and campaign lookups that find no row:
rows are never deleted, except with their tenant, and nothing deletes tenants.
`RunStatus.cancelled`: no code writes it. PostgreSQL's lock queue: a write to a
locked row is simply not enabled until the lock is released.

### LoggingExports

`worker/scheduler.py:7` imports a name `app/core/logging.py` does not define, so the
scheduler as it stands never runs. The constant `LoggingExports` is the set of names
the module defines. One run gives it the real set and shows the consequence; all
other runs add the missing name, to be able to say anything about the scheduler.

## 3. What is checked

The core's safety runs use symmetry of the identifiers; runs with a liveness property do not.
Deadlock checking is off for the core: identifiers are bounded, so behaviours end. It is on
for the breaker and the lock, and off for the middlewares and the tenants, where each request
arrives once.

| Run | Instance | Properties | States |
|---|---|---|---|
| `core_races` | 1 campaign, 2 requests, 2 API runs, 1 scheduler run, 2 workers, no faults | `StatusWitnessed`, `FindingsBoundedByFaults`, `CancelIsFinal` | 56 177 |
| `core_faults` | 1 campaign, 1 request, 1 API run, 1 scheduler run, 2 workers, 1 retry, 2 faults of any kind | `IndInv`, `CarrierInv`, `UnfinishedRunHasCarrier`, `StatusWitnessed`, `FindingsBoundedByFaults`, `RefinesLedger`, `EndedIsFinal` | 387 361 |
| `core_claims` | 3 campaigns, 2 schedulers with limit 2, 3 scheduler runs, no API runs, 1 request, 1 scheduler fault | `UnfinishedRunHasCarrier`, `ClaimedOnce`, `RefinesLedger` | 78 162 |
| `core_liveness` | as `core_faults`, 1 crash or database fault, fair | `RunsEnd`, `DueIsClaimed` | 71 832 |
| `cancelled_executes` | 1 campaign, no faults, fair | `CancelledNeverStarts` is violated | |
| `scheduler_never_starts` | the real `LoggingExports`, fair | `DueIsClaimed` is violated | |
| `breaker_races` | 2 threads, threshold 2, timeout 2 ticks, fair | `IndInv`, `AttributesAgree`, `HealthIsFresh`, `RefinesStreak`, `Heals` | 50 740 |
| `lock_leases` | 2 clients, expiry 2 ticks, fair clock | `IndInv`, `Exclusive`, `OwnershipSafe`, `LockIsFreed` | 223 984 |
| `limiter_windows` | 3 requests of 1 identity, limit 2, 2 windows, fair clock and Redis | `TypeOK`, `WindowLimit`, `GrantsCover`, `NoKeyForgotten`, `KeysDisappear` | 292 746 |
| `unsecured_response` | 2 requests, 1 window | `EveryResponseSecured` is violated | |
| `tenancy_races` | 2 processes, 2 requests, 2 configured keys and 1 issued key in 4 configurations, 5 kinds of entries, 2 crashes or new configurations, fair processes | `TypeOK`, `KeysProvisioned`, `LogTellsTargets`, `GrantsHeld`, `CheckAgrees`, `TenantsKeepKeys`, `ProcessesServe` | 581 049 |
| `rotated_key_unserved` | 1 process, 1 request, fair | `ConfiguredKeysServed` is violated | |

- `UnfinishedRunHasCarrier`: a queued or running run has a request or a scheduler that
  will publish it, a message in the broker, or a worker that will end it or retry it;
  the exceptions are exactly the gaps recorded in `dropped`. In `core_claims` it is about
  batches: a scheduler must keep what it has not published yet.
- `StatusWitnessed`: a campaign that says queued, running, completed or failed has a
  run that says the same. It survives every interleaving of different runs, since each
  worker commit writes both rows, but not double delivery of one run: there the failure
  handler of one execution can leave what the other wrote to one of the rows
  (`LoadFailed` finds the run failed, another execution completes it, `RecordFailure`
  writes the campaign only). Hence the exemption of `duplicated`.
- `FindingsBoundedByFaults`: a run can collect several findings, but each one beyond
  the first costs a fault.
- `CarrierInv`: the account of carriers behind the last two (section 4). Its first part says
  that late acknowledgement, retries and crashes keep a run in one hand at a time: queue,
  worker, request, scheduler or the unacknowledged messages of a worker that is gone.
- `EndedIsFinal`: nothing in the worker asks whether a run has ended before it starts it
  again, and still none is written again before a fault; a run with findings is written
  again only after as many faults as it has findings.
- `CancelIsFinal`: with no run of the campaign in anybody's hands and no request
  that loaded it before the cancellation, nothing brings the campaign back.
- `ClaimedOnce`: row locks and the draft condition together give each due
  campaign one scheduler run.
- `RefinesLedger`: `RunLedger` is the life of campaigns and runs without processes. A run
  belongs to one campaign, begins queued, ends only after a start, gains findings only
  with completion; drafts leave their state with a run or by cancellation.
- `RunsEnd`, `DueIsClaimed`: see fairness.
- `RefinesStreak`: `FailureStreak` has no states. It counts the failures since the last
  success, measures the time since the latest of a full streak, and refuses a call in
  between, exactly then. That the breaker implements it says what the states, the lazy
  half-open and the results recorded out of order come to; in particular every failure
  at the threshold restarts the timeout, and a success of a call admitted before the
  breaker opened closes it.
- `AttributesAgree`: closed means below the threshold and no opening time; half-open
  means the whole timeout has passed.
- `HealthIsFresh`: a response's status is that of this request's own checks.
- `Heals`: once both dependencies stay up, both circuits close for good. For one
  dependency alone this is false: no check has a timeout, so that all threads may hang on
  the other one.
- `Exclusive`: a client *relies* on the lock from the granted `acquire` until it calls
  `release`, while less than `ttl_seconds` have passed since it sent the `acquire`. Two
  clients never do so at once. The exception, `undone`: the uuid belongs to the object, so
  an earlier release of its own, executed late, takes away a lock acquired again since.
- `OwnershipSafe`: README.md:24. `LockIsFreed`: the key of a dead owner expires, because
  acquiring again does not renew it.
- `WindowLimit`: README.md:23. No more than the limit passes through a window, counted per
  life of its key: a command executed after the key has expired creates it anew.
  `GrantsCover` says the same of those still on their way: counted within the limit and
  not let through yet, perhaps by a life of the key that is over.
- `NoKeyForgotten`, `KeysDisappear`: INCR and EXPIRE are two commands; in between the key
  has a request that is about to set its expiry, and only a failed command leaves one
  behind for ever.
- `TypeOK` of `Tenancy` includes the unique columns. `KeysProvisioned`: README.md:55.
  A process decides on its SELECTs what to insert and commits later; the unique columns turn
  whatever happened in between into a restart.
- `TenantsKeepKeys`: no startup, rotation or request takes a name or a key from a tenant.
- `LogTellsTargets`: what a tenant is authorized for is what its audit rows say. There are two
  exceptions, both real: an UPDATE that SQLAlchemy leaves out because the list equals the
  loaded one is audited all the same, and a startup in development fills empty lists
  without an audit row.
- `GrantsHeld`: the list a target is judged by may be out of date by no more than the request.
- `CheckAgrees`: the check and its meaning differ only for lists with an entry that
  makes it raise or that spells out a default port; both err by refusing.
- `ProcessesServe`: processes that start together insert the same rows, and all but one fail;
  still each one serves in the end. `Clash` is the exception: a key without tenant whose
  name is taken, or that is listed twice.

**Bounds.** One campaign and two runs are enough for runs to meet on a campaign row,
two workers for two executions of one run or of two runs, two requests for a stale
read against a stale read. Two faults let a retry, a redelivery and a lost answer
meet; one retry reaches both `Retry` and `RetriesExhausted`. In `core_claims`
a claim takes at most two of three campaigns, so that two claims at once meet each other's
locked rows and one of them is cut short by the limit. `ApiLoad` admits as many executions
at a time as identifiers are left; this is a bound on the number of executions, not a
guard of the code. In `breaker_races` one result can be under way while another thread asks, a
threshold of 2 tells counting from opening, and a timeout of 2 has a time strictly
between; for more threads there are the proofs. In the lock runs an expiry of 2 lets a key grow old without expiring, and a third
client could do nothing to two that the second does not do to the first. In
`limiter_windows` the third request exceeds the limit of 2, and two windows let a command
run in the window after its key's. In `tenancy_races` two changes are a new configuration and
the restart that meets it, four configurations put a new key before the old one, list one
twice, or add the issued key after it was returned, and the lists hold every kind of entry the check tells apart, a bad port before and
after a good entry.

**Fairness.** Weak fairness for each request that has begun (uvicorn serves it to the
end), each step of a scheduler (an endless loop, restarted by
`restart: unless-stopped`), each worker slot's next step and its taking of a message
(tasks end by their time limit), and redelivery (Redis' visibility timeout). None for
creating campaigns, for new requests, for the clock or for faults. `RunsEnd` is
checked with crashes and database faults, one at a time; the kinds it leaves out are those
that do lose runs, which `UnfinishedRunHasCarrier` names. With one fault and one
retry the retries cannot be exhausted; in the code that takes six errors in a row.
`Heals` assumes that the clock goes on, that somebody asks for `/health` again and again
(the container's health check, `docker-compose.yml:60`), that a thread goes on with its own
statements, and that a check ends once its dependency answers; not that a check of a
dead dependency ends. `LockIsFreed` assumes the clock only. `KeysDisappear` assumes the clock, the
expiry of keys and that a command to Redis is executed or fails. `ProcessesServe` assumes
that Docker starts a process again (`restart: unless-stopped`) and that PostgreSQL
answers; crashes are bounded by `MaxChanges`.

**Findings.** `cancelled_executes`: `CampaignPipeline.execute` never looks at the
campaign's status, so cancelling a queued campaign does not stop it. The trace is execute,
publish, cancel, deliver, start. `scheduler_never_starts`: the failed import.
`unsecured_response`: the headers are added by the innermost layer (README.md:274 says every
response carries them). Traces of equal length show it, and TLC prints one of
them: an exception of an endpoint, or the limiter's own `HTTPException` when Redis fails,
which takes the same way, so that 429 and 503 become a plain 500. `rotated_key_unserved`: tenants
are named after the position of their key in `HCVF_API_KEYS`, so that a key put before
another one, or in its place, asks for a name that is taken; no process starts until the
configuration is put back. The trace is start with `k1`, configure
`k2,k1`, restart; this run has these two configurations only, so that no key is listed twice. `PROJECT.json`
also records, without a run, that "already running" and "running cannot be cancelled" are
judged on a stale read, that the Alembic chain is broken between revisions 0002 and
0003, that a key issued for a new tenant does not authenticate, and that one malformed entry
of a tenant's list turns `POST /campaigns` into a 500.

## 4. What is proved

The seven proof modules (`SetSizes` has lemmas only) prove with TLAPS, for every value of the constants (any number
of campaigns, runs, requests, schedulers, workers, retries and faults; of threads, any
threshold and timeout; of lock clients, any expiry; of API processes, tenants, keys and
lists of targets; of limited requests, any limit):

| Theorem | Statement |
|---|---|
| `Invariance` | `Spec => []IndInv` |
| `NothingLost` | `Spec => []UnfinishedRunHasCarrier` |
| `NoDoubleClaim` | `Spec => []ClaimedOnce` |
| `Refinement` | `Spec => RefinesLedger` |
| `CancellationFinal` | `Spec => CancelIsFinal` |
| `Accounted` (`CarrierProofs`) | `Spec => []CarrierInv` |
| `StatusAlwaysWitnessed` | `Spec => []StatusWitnessed` |
| `FindingsCostFaults` | `Spec => []FindingsBoundedByFaults` |
| `EndIsFinal` | `Spec => EndedIsFinal` |
| `HealthInvariance` (`HealthProofs`) | `Spec => []IndInv` |
| `AttributesAlwaysAgree` | `Spec => []AttributesAgree` |
| `ResponsesAreFresh` | `Spec => []HealthIsFresh` |
| `BreakerKeepsPromise` | `Spec => RefinesStreak` |
| `LockInvariance` (`DistributedLockProofs`) | `Spec => []IndInv` |
| `MutualExclusion` | `Spec => []Exclusive` |
| `ReleaseIsOwnershipSafe` | `Spec => OwnershipSafe` |
| `AcceptedIsCovered` (`TargetAuthorizationProofs`) | an accepted target is covered by an entry |
| `CoveredIsAccepted` | a covered target is accepted, if all entries are well formed and spell out no default port |
| `ColumnsUnique` (`TenancyProofs`) | `Spec => []TypeOK` |
| `ServesProvisioned` | `Spec => []KeysProvisioned` |
| `AuditTellsTargets` | `Spec => []LogTellsTargets` |
| `GrantsWereHeld` | `Spec => []GrantsHeld` |
| `CheckAlwaysAgrees` | `Spec => []CheckAgrees` |
| `KeysStay` | `Spec => TenantsKeepKeys` |
| `CountersTyped` (`MiddlewareProofs`) | `Spec => []TypeOK` |
| `OnlyFailuresForget` | `Spec => []NoKeyForgotten` |
| `GrantsKept` | `Spec => []GrantsCover` |
| `LimitHolds` | `Spec => []WindowLimit` |

The assumptions are `IdAssumption` (API and scheduler identifiers differ, the null
identifiers are none of them), `BoundAssumption` (the bounds are numbers),
`LimitAssumption`, `BreakerAssumption`, `LockAssumption` and `MiddlewareAssumption` (what the
constructors check, and null values outside their sets), `DependencyAssumption` (postgres and
redis), `UrlAssumption` and `TenancyAssumption` (null values, a name for each position of a
configuration, which lists keys of `ConfigKeys`, targets and lists from the sets of well-typed
ones, `Sorted` lists the members of a set; configured and issued keys may overlap); TLC
evaluates them in every run.

**The inductive invariant.** Neither `UnfinishedRunHasCarrier` nor `ClaimedOnce` nor
the refinement is inductive: each depends on what an actor remembers still being
true of the tables when it acts. `IndInv` adds just that. `RequestsHoldRows`: a loaded
campaign exists, one seen queued is no draft, a run to be published is committed.
`ClaimsHold`: a claimed batch is locked and still due, batches are disjoint, a
scheduler that is not claiming has no batch. `MessagesHoldRuns`: messages are about committed
runs, and a run being fetched or failed was started. `RunsHaveCampaigns`: a run belongs
to a campaign that has left the drafts.

**The argument.** `LedgerStep` comes first: under `IndInv` every step is a step of
`RunLedger` or leaves the tables alone. What the ledger's few actions keep
(`LedgerKeepsRows`: no row disappears, no campaign becomes a draft again, no started run
becomes queued again) then holds of every action of the system at once, and most of
`IndInv` follows from it. `LockedDraftStays` is the heart of `ClaimsHold`: only the scheduler
that holds a locked draft can change it, because requests wait for the lock and workers
only touch campaigns that have left the drafts. The last lemma follows every run from hand
to hand. `Refinement` combines `LedgerStep` with `Invariance`.

**The carriers.** `StatusWitnessed` and `FindingsBoundedByFaults` say nothing of who is about
to write, so neither is inductive. `Carriers(r, steps)` is the set of all that may still act on
a run: each copy of its message, each worker that has it at one of `steps`, the request or the
scheduler that will publish it. `CarrierInv` has five parts:

- `OneCarrier`: a run that is not in `duplicated` has at most one carrier. Every step hands a
  run on, drops it, opens it or puts it into `duplicated` (`Held`).
- `FindingsPaid`: findings and carriers that may still write one (`Unpaid`, those before
  their result is committed) are together at most 1 plus the faults. A step without a fault
  adds a finding only by using up a carrier, and a fault adds one of the two at most
  (`Paid`, in `NextAccount`). This needs no exemption for runs delivered twice.
- `HandlersKnow`: while the target is fetched the run is running, and a failure handler that is
  about to write knows whether its run is failed, whether it read the row again or not, as
  nobody else acts on the run (`SoleActor`).
- `WitnessStays`: `StatusWitnessed`, and a handler that will write the witness but leave the
  campaign alone found the campaign failed. A worker that writes makes its run the witness
  (`NewWitness`) or leaves the one there was (`OldWitness`); a claim or an
  execution makes the opened run the witness (`FreshWitness`).
- `EndedAtRest`: before the first fault, nobody who could write a finding carries a run that
  ended. Whoever ended it was its only carrier and no longer is (`EndsByWorker`).

`EndIsFinal` follows: who writes a run is one of its `Unpaid` carriers (`NextWrites`), so that
`FindingsPaid` leaves at most as many findings as faults, and `EndedAtRest` at least one fault.
`EndedAtRest` has to be a part of its own, because a run that ended `failed` may have no finding.

**The breaker.** `AttributesAgree` is inductive with the types: each of the four updates
of an attribute record preserves it (`CurrentStateAgrees`, `AfterSuccessAgrees`,
`AfterFailureAgrees`, `AgedAgrees`, which also say what the update does to streak and
stopwatch, and from which `StreakStep` follows). `HealthIsFresh` needs `AnswersKept`: while a
dependency is asked its answer is with the thread, afterwards it is in the entry.

**The lock.** `KeyOutlivesReliance`: age of the lease and time left of the key add up to at
least the expiry, since the age was counted from before the SET, both clocks tick
together, nobody overwrites a key and only its owner's release deletes it (`KeySteps`).

**The target check.** The loop ends at the first decisive entry (`LoopEnds`). That there is a
first one is `FirstExists`: induction is out of the provers' reach, but strict inclusion of
finite sets is well-founded by a library theorem, so one of the intervals from 0 to a
decisive position is minimal. The rest is `AdmittedIsCovered` and `CoveredIsAdmitted`, entry
by entry.

**The tenants.** `IInv` adds to the properties what processes and requests remember.
`ProcessesKnow`: a key that a process found a tenant for still has one (rows are never
deleted: `TableStep`), and the tenants it will give local targets to are there in
development only. `RequestsKnow`: what was loaded is among what the caller has `held`.
`RowsInserted` is the unique columns at work: a new row meets neither a row of the table nor
one that the same commit rewrites.

**The limiter.** `ExpirePending`: a request about to set an expiry is the only one, and the
key it counted up is still there without expiry. Hence no other INCR takes itself for the
first, and no EXPIRE meets a key that is gone. `GrantsCover` counts the requests that hold a
grant: `INCR` adds a holder exactly while the count is within the limit (`CountUpGrants`,
`IncrCovers`), `Decide` turns one into a request passed (`DecideCovers`), and a key that expires
leaves behind the full limit for its life (`KeyExpiresCovers`). A failed command only loses
grants.

**Only model-checked.** Every invariant and every action property of the passing runs has its
theorem. What is left are the liveness properties `RunsEnd`, `DueIsClaimed`, `Heals`,
`LockIsFreed`, `KeysDisappear` and `ProcessesServe`: fairness and ENABLED are out of the provers'
reach. So are induction over data and RECURSIVE operators, which none of these modules uses.

## 5. Plan

1. *Done:* the core (this document's sections 2 to 4).
2. *Done:* `CircuitBreaker`, `Health`, with `FailureStreak` as what they implement.
3. *Done:* `DistributedLock`.
4. *Done:* `Middleware`, with proofs of all its safety properties.
5. *Done:* `TargetAuthorization` and `Tenancy`, with proofs of all their safety properties.
6. *Done:* the account of carriers and of the limiter's grants, and with them `StatusWitnessed`,
   `FindingsBoundedByFaults`, `EndedIsFinal` and `WindowLimit`.
7. Next: the run's result columns (`error_message`, `http_status`), which an execution that
   follows a failed one leaves as they were, and what a reader of the run is told by them.

## 6. Not modelled

- *Run and finding retrieval* (`run_service.py`, `campaign_runs.py`) and the other reads:
  one SELECT each, joined on tenant and campaign. Nothing changes, nothing interleaves; a
  property would restate the WHERE clause.
- *Retry utility* (`app/core/retry.py`): a loop around a callable, without a caller and without
  shared state.
- *Result columns of a run* (`error_message`, `http_status`, timestamps): the pipeline writes
  them beside the status and nobody decides on them.
- *Target at run time*: the pipeline fetches the target of the campaign without looking at
  the tenant's list again, so there is no promise to check; what is promised, at creation,
  is `GrantsHeld`.
- *Lock order in PostgreSQL*: a deadlock ends as an OperationalError, which the core has as a
  fault of every commit.
- *Logging, metrics, errors, migrations, scripts, tests*: formatting, counters and static data.
