# TLA+ models of the Hanzhou Polaris ERP cloud server

The ERP publishes products to SHEIN, receives SHEIN's notices about them, and keeps
compliance evidence and business data of its stores up to date.  A write to SHEIN costs
quota, cannot be taken back and is not idempotent, so the server is built around one
rule: *a human confirms an exact body, a one-shot authorization is consumed for it, and
it is written at most once, whatever workers, queues, network and reviewers do
meanwhile.*  Around the writes run the jobs that read SHEIN again: they must end, must
not take stored data back in time, and must not claim to be complete when they are not.
This directory models the parts of `src/server/cloud` that carry these rules,
model-checks them on small instances with TLC, and proves their safety properties and the
refinements of two contracts for every instance with TLAPS.

    tlc -workers 2 -config MCPublishExecution.cfg MCPublishExecution
    tlapm PublishExecutionProofs.tla    # and the other seven *Proofs modules

`PROJECT.json` lists the components, the runs, the mutants that show each property can
fail, the source lines of every definition, the findings, the hazards and the theorems.

## 1. The system

```
 browser ──HTTP──> control server ──> publish batch service ──┐ one transaction:
              │         │               (preflight, confirm,  │ run running,
              │         │                plan, authorize,     │ jobs, outbox events
              │         │                consume)             v
              │         │       publish_execution_runs / _jobs, publish_outbox_events
              │         │                    ^                          │
              │         │                    │ claims, outcomes,        │ lease, add, mark
              │         │                    │ receipts                 v
              │         │             publish worker <── BullMQ <── outbox dispatcher
              │         │                    │
              │         ├──> AI title service ──> provider
              │         └──> compliance writes (check, submit)       SHEIN
              │                        │     │                         ^
              │  starts a readback     │     └── publishOrEdit, save, bind
              v                        v
   store, rule and compliance refresh: sync_jobs ──> BullMQ ──> workers ──reads──> SHEIN
              │                                                          │
              v                                          signed notices  │
      snapshots, requirements                                            v
              ^                                            webhook server: webhook_events
              │ quota, "data changed"                                    │ add
              └───────────── webhook worker <── BullMQ <─────────────────┘
                               └──> receipts of publish jobs, review states
```

Components interact through rows of PostgreSQL (read in one transaction, written in
another), through BullMQ jobs (at least once), through HTTP calls of SHEIN whose answer
may be lost, and through SHEIN's webhook notices, which come in any order and, as far as
the publish jobs can tell, any number of times.

| Component | State | Operations | What is hard | What makes it correct | Modelled |
|---|---|---|---|---|---|
| publish execution protocol (`publish-execution-protocol.js`) | one protocol object: authorization, requests with state, claim, readback | build, consume, claim, record, expire, four readbacks | order of readbacks, stale claims, completion refresh | completed = received, approved, read back and revalidated; one consumption; no second try of an unknown result | `PublishProtocol`, proved |
| publish execution in SQL (`publish-execution-repository.js`), worker, executor | runs, jobs, receipts, batch items, quota projection | consume, claim, expire, record outcome, append receipts, readback, completion | redelivery, lapsed leases, crashes, lost answers, late notices, READ COMMITTED write skew | SHEIN accepts a job at most once; completed has evidence; quota counts receipts | `PublishExecution` (command path), proved |
| publish outbox and queue (`outbox-dispatcher.js`, `job-queue.js`) | outbox events with lease, BullMQ jobs | insert with the run, claim batch, add, mark, fail | dispatcher death, overrun leases, shared process ids, double add | every committed command is delivered; dispatched implies queued | `PublishOutbox`, safety proved |
| publish batch service (`publish-batch-service.js`) | batch, items, preflight document, runs, jobs | preflight, confirm, plan, authorize, execute, pause, retry, publishNow | read/write in two transactions, drafts edited meanwhile, several runs of one batch | what is sent was confirmed; the document speaks of the current candidates | `PublishBatch`, proved |
| webhook ingress, event store, worker (`webhook-server.js`, `webhook-event-store.js`, `webhook-worker.js`) | replay keys, webhook events: received, queued, processing, processed, failed; review states | accept, deduplicate, queue, claim, handle, mark, retry | death in `processing`, `markQueued` overtaken by the worker, late and repeated notices | no accepted notice is lost silently; processed means applied; reviews do not go back | `WebhookPipeline`, proved |
| store business snapshots (`store-business-service.js`) | one snapshot per store with data, quota, change marker; refresh jobs | claim, read, save, fail, reconcile, notices | timed-out workers that still write, notices during a read, two-query failure | every refresh ends; the marker covers the data; quota survives | `StoreRefresh`, proved |
| sync jobs, compliance sync (`compliance-sync-service.js`) | jobs, items, stored requirements | claim, prepare, read, save a batch, finish, retry | a job ends under its worker, two attempts share items, partial failure | succeeded means every SKC was stored | `ComplianceCycle`, proved |
| compliance writes (`compliance-write-service.js`) | confirmation tokens, in memory | check, submit, save, bind, read back | overlapping submissions of one token, plans from stale requirements, restart | one write per confirmation | `ComplianceCycle`, proved |
| rule snapshots and refresh (`rule-refresh-service.js`, `rule-refresh-scheduler.js`) | snapshots with an expiry, refresh jobs with their progress, advisory locks | schedule, claim, retry, read in lanes, record, prune | lanes share one progress, several schedulers, a failure recorded under the next attempt | succeeded means every target was stored; a retry repairs a partial failure; one monthly refresh | `RuleRefresh`, proved |
| AI title service (`ai-title-service.js`) | result cache, runs by key, slots in use, queue; the stored settings | suggest, save settings | slots given back on every path, settings replaced while a run is under way, saves that overlap | slots in use = runs at the provider; no result of older settings is served; every caller gets an answer once the provider has finished its own | `AiTitle`, proved |
| media lifecycle | objects, references, pending deletes | upload, reference, release, clean up | a delete races a new reference | a referenced object is never deleted | candidate; the clean-up query has a comma before `FROM` (`media-cleanup-worker.js:32-38`) and fails, so nothing is deleted at present |
| accounts, devices, authorization | sessions, invitations, store grants | sign in, invite, authorize, revoke | expiry, replay of one-time tokens | a token is used once | candidate |
| drafts, templates, review; read-only business calls | CRUD rows, caches | edit, validate, query | little: single-row updates | validation (pure data) | not modelled |
| control server, local desktop proxy, web interfaces, deployment | connections, files, screens | routing, I/O, presentation | little that a state machine shows | – | not modelled |

"Not modelled" parts are listed with their reason in `PROJECT.json`.

## 2. The modules

```
PublishWriteContract          what may be written, abstractly
   ^                ^
   │ implements     │ implements
PublishProtocol   PublishExecution      PublishOutbox       PublishBatch
                                        (commit → queue)    (up to and past consume)

SyncJobContract               what a row of sync_jobs promises, abstractly
   ^                          ^                             ^
   │ implements               │ implements                  │ implements
StoreRefresh                  ComplianceCycle               RuleRefresh
(snapshot and its refreshes)  (sync → plan → write → sync)  (schedule → job → lanes)

WebhookPipeline               AiTitle
(request → event → review)    (cache → run → slot)
```

One `MC*` module per specification adds the symmetry sets and explains the bounds; a
`.cfg` file gives the constants.  The proofs about a specification are in the module
`*Proofs` that extends it; those about `PublishOutbox`, where the protocol's requests go
on as commands, are a section of `PublishProtocolProofs`.  It extends both, so the names
of the outbox's specification begin with `Outbox` (`OutboxInit`, `OutboxNext`,
`OutboxTypeOK`).

**`PublishWriteContract`** is the promise: the plan is opened once (`Open`), a request
is granted to a worker (`Grant`) only when it was never tried or failed explicitly and
retryably, a grant is settled once, an unknown result can only be recovered (`Recover`),
never granted again, and the plan is closed no earlier than its last request is
completed.  The owner of a plan may rely on three consequences: a request that is
accepted, failed for good or unknown is over (`WritesEnd`), a plan that is not open was
never written from or is completed to the last request (`ClosedIsWhole`), and one that
was closed is not opened again (`ClosedForGood`).

**`SyncJobContract`** is the promise of the table that three refreshes share, each with
queries of its own: jobs of one kind and store are claimed one after the other, a claim
leaves no other job active (`Claim`), only a job that a worker has started succeeds
(`Start`, `Succeed`), and a job that has failed or succeeded stays so (`Fail`).  Readers
of the table may rely on two consequences: the active job is the newest and the only one
(`NewestIsActive`), and an end is final (`EndIsFinal`).

**`PublishProtocol`** is `publish-execution-protocol.js`, one action per exported
function: `Consume`, `Claim`, `RecordResult`, `ExpireClaim`, `ReadReceive`, `ReadAudit`,
`ReadSpu`, `ReadCompliance`.  Each readback action includes the completion refresh that
the code runs in the same call.  Calls that throw or return their argument stutter.  The
two deadlines are facts that become true (`AuthorizationDeadline`, `ClaimDeadline`).  A
history variable, `sinceAudit`, records which stages were read back since the last notice
of audit: four values that are all done do not tell for which approval they were read.

**`PublishExecution`** is one run as production executes it: every SQL transaction is an
action.  A worker goes through `StartCommand` (with markExpiredClaimsUnknown),
`ClaimNextJob` or `NothingToClaim`, `LoadSource`, `CallShein`, `RecordOutcome` or
`OutcomeTooLate`, `Finish`; it may `Crash`, its processor may throw (`Throws`), the
answer may be lost (`AnswerLost`). SHEIN processes a request at any time after it was
sent (`Process`), also after the worker has given up; then it audits and sends notices,
which `AppendReceipt` or `UnmatchedReceipt` handles.  Two transactions depend on rows
that they do not lock and are modelled at the granularity at which READ COMMITTED shows
it: the completion (`AppendSpuReadback`, `BeginCompletion`, `CommitCompletion`), and
overlapping failures (`overlapped`).  The local quota counts a publish response only for
a store whose snapshot has a product quota with a limit (`quota.known`, `Counted`).

**`PublishOutbox`** is the transactional outbox: `CommitRun`, then per dispatcher
`ClaimPending`, `AddToQueue` or `AddFails`, `MarkDispatched`, `MarkDispatchFailure` or
`MarkFails`, and `TickDies`; leases lapse, also while their holder is at work.  The
lease's name is the dispatcherId, which is derived from the process id, and the initial
states leave open which dispatchers share one.

**`PublishBatch`** is the life of a batch around the authorization.  A call is a
*session* that reads the batch (`Act` or `Read`), waits, and writes it (`Write`) under
the comparison that the code makes: none for `RecordPreflight`, the whole document for
`RecordExecutionPlan`, `RecordExecutionProtocol` and others.  `publishNow` is a session
that goes on to the next action by itself.  Drafts are edited, authorizations expire,
calls die, and the workers appear in their steps on the batch: `ClaimJob`, `LoadSource`
or `SourceChanged`, `PostJob`, `AwaitReadback` or `Rejected`, and `CompleteJob`.  The
variable `call` holds how far the worker of a job is and the body that it has loaded.
Between the load and the request the executor waits for the store's credential; a draft
may be edited then, a worker may die (`WorkerFails`), and a claim may expire
(`ClaimExpires`) under a worker that still posts.

**`WebhookPipeline`** follows a notice.  A call of the webhook server is a state machine
per signed request: `ClaimReplay` or `DuplicateRequest`, `Insert`, `AddJob`,
`MarkQueued`, after a failure `MarkQueueFailed`; any step may fail (`CallFails`) or be
the last (`CallDies`).  A slot of the worker goes through `Claim`, the writes of the
handler (`ApplyFirst`, `ApplySecond`), and `MarkProcessed`, or `MarkFailed` when anything
threw.  Which writes a handler makes depends on the notice (`Due`): the receipts of a
document notice are written always, its review state only for an audit notice with
tenant and store, both writes of a business notice only with tenant and store; a
reception has no second write.  What is skipped is processed all the same.
Slots die, job locks lapse under a slot that is still at work (`Stall`), finished jobs
are evicted, and a user archives the review.  A signed request may carry any notice,
and a notice may come in several requests, as SHEIN repeats it.

**`StoreRefresh`** is one row of `store_business_snapshots` with its refresh jobs.
`ClaimRefresh` is the one SQL statement that times out old jobs and claims snapshot and
job together; `AddJob` or `AddFails`, then `MarkRunning`, `ReadShein`, `SaveSuccess`, or
`RefreshFails` with the two queries of saveFailure, `FailSnapshot` and `FailJob`, between
which a process may die.  `ReconcileStale` (the dashboard) and `ListSyncJobs` time out
jobs too.  Notices (`SaveQuota`, `CountNotice`) write into the same row at any time.
History flags (`raced`, `late`, `torn`) record the three circumstances under which the
code gives up a guarantee, so that the properties can say that there is no fourth.

**`ComplianceCycle`** is a loop: a sync (`StartSync`, `AddJob`, `MarkRunning`,
`PrepareItems`, `ReadShein`, `SaveBatch`, `SaveSuccess` or `SaveFailure`) stores what
SHEIN asks of each SKC; `Check` plans a submission from it and issues a token; `Submit`
plans again, `ConsumeToken` compares plan and token and remembers the token,
`SaveCertificate` and `Bind` write to SHEIN, and `StartReadback` starts the next sync.
Syncs have no heartbeat, so `JobLapses` may happen under a worker at any time, and
`ExpireJobs` then ends the job while the worker goes on.  `Restart` loses requests,
launch and the memory of consumed tokens.

**`RuleRefresh`** is the refresh of the publishing rules of one store.  An administrator
(`StartRefresh`) or a scheduler (`Wake`, `ListStores`, `StartScheduled`, `Prune`) claims
a job with `ClaimRefresh`, which times old jobs out first, and queues it with `AddJob`,
or `AddFails` and `FailLaunch`.  An attempt goes through `MarkRunning`, `ReadTargets`,
`ResetProgress`, and then its lanes take targets from one list: `StoreTarget` or
`MissTarget`, and a `SaveProgress` in a chain that all lanes share.  A write of the chain
that fails ends the attempt while other lanes still wait for SHEIN (`strays`).
`SaveSuccess` or `SaveFailure` ends the job; `RecordQueueFailure`, which the queue's
failed event starts and nobody waits for, may come when the next attempt is at work.
Schedulers hold an advisory lock per kind of run, which goes with its connection
(`LoseLock`).  History variables (`goal`, `stored`, `lockLost`) record what attempts
wanted and stored, and the one circumstance that `MonthlyOnce` excepts.

**`AiTitle`** is the title service of one tenant.  A suggestion is a `CacheHit`, joins
the run of its key, or starts one (`Suggest`), which goes through `ReadSettings`, a slot
(`TakeSlot`), a place in the queue (`Enqueue`) or `Busy`, `ReadImage`, `AnswerBegins`
(the headers are there and the timer is stopped), and `Answer` or `Uncertain` when the
body has ended, or before that `Fail`; these three include releaseAiSlot with its
hand-over to the first in the queue.  A run may be refused (`Refuse`) before it has a
slot.  An administrator's save is `StoreSettings` and, after the settings were read
back, `ClearCache`, or `ReadBackFails`. Entries of the cache expire (`EntryExpires`).

Common abstractions: a fresh UUID per claim is the number of the attempt; time is a fact
per lease or deadline that only becomes true; fingerprints are the thing they are
computed from (a preflight generation and a draft version); receipt payloads are their
kind.  External parts (SHEIN, BullMQ) are modelled from how the code uses them and
marked external in the map.  An explicit error answer of SHEIN is taken to mean that
nothing was accepted, as the worker takes it.

## 3. The runs

Deadlock checking is off in all of them, because all these systems really stop: a
completed or failed plan, an acknowledged notice or a finished refresh has nothing left
to do, and the bounded counters run out.

| Run | Bounds | Distinct states | What it shows |
|---|---|---|---|
| `protocol` | 2 requests, 2 runs, 2 attempts | 28 058 | `CompletedIsProven`, `EvidenceOnlyAfterAcceptance`, `CompletionIsComplete`, and the contract |
| `execution` | 2 jobs, 2 workers, 2 attempts, 1 redelivery, a quota with a limit or without | 1 059 908 | at most one accepted write, one write in flight, evidence of completion, quota, batch and run projections, and the contract |
| `outbox` | 2 commands, 2 dispatchers, batches of 2, 2 faults | 44 198 | every committed command is delivered; the outbox comes to rest when ids differ |
| `batch` | 1 item, 2 overlapping calls, 2 preflights, 2 runs, 1 worker per job | 1 386 892 | document, runs and jobs agree under overlapping calls; what is sent was confirmed and was current when it was loaded |
| `webhook` | 2 notices on one document, the second older, a newer one without store, a business notice without store; 2 signed requests (one of them twice, or the first two), 2 slots, 2 attempts, 1 fault | 286 208 | processed is applied, one handler at a time, reviews never regress, accepted notices are handled |
| `store_refresh` | 2 workers, 2 launchers, 2 refreshes, 2 versions, 1 notice, 1 quota, 2 attempts, 1 fault | 268 121 | snapshot and job agree, the marker covers the data, nothing goes back, every refresh ends |
| `compliance` | 2 SKCs (a report, photos), 2 workers, 2 requests, 1 token, 1 sync, 1 decision, 1 draft edit, 2 attempts, 1 fault | 1 201 703 | one write per confirmation, a succeeded sync is complete |
| `rule_refresh` | 2 workers, 1 launcher, 2 targets, 2 lanes, 2 jobs, 2 attempts, 1 fault | 1 672 267 | a succeeded refresh is complete, a retry repairs a partial failure |
| `rule_schedule` | 1 worker, 2 schedulers, 1 target, 2 jobs, 1 attempt, 1 fault | 100 358 | the monthly window starts one refresh, and every refresh ends |
| `ai_title` | 3 keys, 1 slot, 1 place in the queue, 2 cache entries, 2 saves | 100 046 | no slot leaks, no stale result is served, every run ends if the bodies of answers do |
| `lapsed_claim` | 1 job, 1 worker | counterexample | finding 1 |
| `duplicate_request` | 1 item, 2 calls | counterexample | finding 2 |

*Why the bounds are enough.* Two of each actor is the least that lets one act between
the steps of another; every guard relates one job to one worker, or a job to "all
others", so a second job is the first case of every quantifier. Two attempts allow one
retry and a stale answer of the first attempt; one extra delivery allows two workers on
one command. Two outbox faults allow a dispatcher that dies and a successor that
overruns its lease. Two preflights and two runs allow an older run to act on a batch
that was authorized again. `batch` has one item, since overlapping calls on several are
too large; one item of two that fails first (the state `partial_failure`) was checked
with one call and is not part of the runs. Two notices of different age, in one request
twice or in one each, are the cases of order and repetition that a review state can tell
apart; a notice without store needs no partner, because it writes no review.  A
reception is not among them: like the audit notice without store it has its receipts
only. Two refreshes are needed for a worker that was timed out to write into the refresh
after its own; two versions of the data, to see it go back. One sync suffices for
`compliance`, because the plans read only what it stored and a second claim is refused
or joins the first, and two attempts of it share its items; two SKCs of different kind
take both write paths and make a sync partial; two requests with one token race for it.
Two lanes with two targets let a write of one lane wait behind the other's, two jobs are
a refresh and its retry, or the two that overlapping schedulers might start. With one
slot, one place in the queue and three keys one run works, one waits and one is turned
away; the third key also fills the two entries of the cache; the second save overlaps
the first. One fault in these runs may be any of the failures at any step; the
invariants of `webhook` also hold with two (not part of the runs, for its size). Of the
bounds (`Max*`, `BatchSize`) the code has `BatchSize`, `MaxAttempts` of the three
queues, and `MaxConcurrent`, `MaxQueue` and `MaxEntries` of the title service.

*Fairness.* `PublishExecution` (only `lapsed_claim` uses it): the batch service
consumes, an idle worker takes a waiting command and finishes a started one, claims
lapse, SHEIN answers, and BullMQ hands out a stalled command again; these are timers and
loops that run as long as the servers do. `PublishOutbox`: the interval timer keeps
ticking and a tick goes on, back-offs end, the lease of a dispatcher that is not at work
lapses, BullMQ serves and removes jobs. `WebhookPipeline`: a call of the server and a
handler that are running go on, BullMQ serves waiting jobs and notices jobs whose slot
is gone. `StoreRefresh`: running processes go on, time passes, and the dashboard and the
job list, which the interface polls, are looked at again; nothing is assumed of the
queue, so `RefreshEnds` holds even if it loses the job. `RuleRefresh`: launches and
attempts that are running go on, SHEIN answers each request (perhaps with a refusal),
time passes for a job that nobody works on, and the job list is looked at; nothing is
assumed of the queue or the schedule. `AiTitle`: a run goes on, because queries and the
storage answer or fail and a timer ends the wait for the headers of the provider's
answer. That timer is stopped when they are there (`ai-title-service.js:626-628`), so the
body has no fairness; `EveryRunEnds` states its assumption in the formula instead
(`BodiesEnd`: no body stays under way for ever). Nothing is assumed
anywhere of crashes, lost answers, overrun leases, SHEIN's notices or people, and no
other run has fairness.

## 4. What is proved

`PublishProtocolProofs` proves of `PublishProtocol`, for every set of requests and runs
and every bound on attempts:

* `TypeCorrect`: the shape of the protocol object.
* `InvariantHolds`: the inductive invariant `IInv`.
* `CompletedProven`, `EvidenceProven`, `CompletionProven`: the three safety properties
  that the run `protocol` checks.
* `ContractImplemented`: `Spec => ImplementsContract`.
* `OwnersMayRely`: the contract's three consequences, of the protocol object.

The assumptions are `RequestsAssumption` (the plan is not empty), `NoRunAssumption`
(null is no run) and `MaxAttemptsAssumption`; TLC evaluates them in the run.

*The argument.*  `IInv` is the conjunction of `TypeOK`, the three properties,
`StagesAreFresh` and three parts about who may act.  `CompletedIsProven` needs
`StagesAreFresh`: while a request is approved, what counts as read back was read since
that notice, because a repeated approval asks for the SPU again.  The other parts are
there for the refinement, where each step must be one of the contract's steps:

* `Consume` is `Open`, which requires that no request has moved:
  `NothingBeforeConsumption`, which in turn needs `AuthorizationNamesRun`, because every
  call but `Consume` is guarded by the run's name.
* `Claim` is `Grant`, `RecordResult` and `ExpireClaim` are `Settle`.
  `ClaimFencesLatestAttempt` states what makes the claim a sound fence: a claim exists
  only while the request is claimed, and it is the one of the latest attempt.
* A notice that shows that an unknown write arrived is `Recover`, the last readback is
  `Finish`.  A notice that did both at once would be neither.
  `EvidenceOnlyAfterAcceptance` excludes it: an unknown request has no stage done, so
  one notice cannot finish it (`UnknownReadback`).
* Closing the plan is part of the last `Finish` by `CompletionIsComplete`; everything
  else stutters.

All four readbacks end in one shape (`StoreReadback`), so `StoreReadbackTyped`,
`StoreReadbackInv` and `StoreReadbackRefines` are proved once for the shape and cited
four times.

`ComplianceCycleProofs` proves of `ComplianceCycle`, for every set of SKCs, workers,
requests and tokens and for all bounds:

* `TypeCorrect`: the shape of jobs, queue, slots, tokens and requests.
* `OnceProven`: `OneWritePerConfirmation`.
* `SuccessProven`: `SucceededIsComplete`.

The assumptions are `SkcsAssumption` (the store has an SKC), `NoneAssumption` and
`BoundsAssumption`.

*The argument.*  Each invariant has a strengthening of its own on top of the types
(`TypeInv`, which adds that a slot has an SKC to read or save, and a request a token).

* `WriteInv`, for one write per confirmation: a request that is past the consumption of
  its token finds it among the consumed ones (`PastIsConsumed`) and has it alone
  (`PastIsAlone`), because `ConsumeToken` asks and remembers in one step. A token that
  was never consumed is unwritten, and so is one whose request has its write still to
  come (`PendingUnwritten`); after the write, `SavesReport` tells which of save and bind
  it was.  A restart forgets the tokens and moves them to `forgotten`, but it also ends
  all requests.  The five actions behind the consumption have one shape (`PastStep`).
* `SyncInv`, for complete syncs: without a lapsed lock a job has one slot
  (`SlotsApart`), a waiting entry none (`WaitingIsFree`), and a job that has succeeded
  none (`SuccessIsFinal`).  So what a slot knows of its items stays true: every SKC is
  still to come, being saved, counted as failed or stored (`SlotsAccounted`), and at the
  end, with nothing to come and nothing failed, all are stored.  `QueuedWasClaimed` is
  needed where a launch adds a job to the queue: nobody can be at it yet.

`AiTitleProofs` proves of `AiTitle`, for every finite set of keys and all bounds:

* `TypeCorrect`: the shape of cache, runs, queue and settings, and that cache and queue
  keep to their size.
* `SlotsProven`: `SlotsAreUsed`.
* `CacheProven`: `CacheIsCurrent`.

The assumptions are `KeysAssumption` (the keys are finitely many) and `BoundsAssumption`
(there is at least one slot and one cache entry).

*The argument.*  `SlotsAreUsed` is inductive as it stands, and the types need it: the
counter stays a natural number because whoever gives a slot back has one.  The step that
matters is `Release`: either nobody waits and the number of holders falls with the
counter, or the first of the queue becomes a holder in the place of the one that ends,
and both stay (`ReleaseStep`).  For the cache, `CacheInv` adds to `CacheIsCurrent` that
no run began in a later epoch than the present one (`EpochsArePast`), that applied and
unfinished saves are stored ones (`SavesAreStored`), and that a run of the present epoch
that has read its settings read none older than the applied ones (`RunsAreCurrent`).
Clearing the cache raises the epoch, so that afterwards no run is of the present one.

`PublishExecutionProofs` proves of `PublishExecution`, for every finite set of jobs, every
set of workers and all bounds:

* `TypeCorrect`: the shape of rows, workers, queue and SHEIN.
* `NoDoubleWriteProven`: SHEIN accepts no job twice, and no two requests of a job are
  under way at once.
* `ReceiptsProven`: what a completed job has behind it, and the quota, which counts each
  stored publish response once where the store has a limit and nothing where it has none.
* `ProjectionsProven`: run, batch and items never claim more than the jobs have done.
* `ContractImplemented`: `Spec => ImplementsContract`.
* `OwnersMayRely`: the contract's three consequences, of the run in SQL.

The assumptions are `JobsAssumption` (some jobs, finitely many), `NoJobAssumption` and
`BoundsAssumption`.

*The argument.*  Three groups stand on the types, and each is proved on its own.

* `WriteInv`, for `NoDoubleWrite`, which is far from inductive: a lapsed lease lets a job
  change its state under a request that is still on its way.  The strengthening says that
  a worker past its claim is the only one with the job's latest attempt, and that neither
  it nor its request exists unless the job is claimed or its result unknown, and from
  neither of these is a claim granted.  An old worker that comes back finds another
  attempt's number and records nothing.
* `EvidenceInv`, for `ReceiptsAreTrue`: a stored publish response comes from an accepted
  write, a readback from an approval, and an open completion transaction has both.
* `ProjectionsAgree`, which becomes inductive with `SeenIsCompleted`: what an open
  completion transaction has seen of other jobs stays true until it commits, since a
  completed job is never anything else again.

The refinement takes a job's state and its attempt count for the contract's phase and
attempts as they stand, and a running run for the open plan.  A claim is `Grant`, an
outcome or a lapsed lease `Settle`, the completion `Finish`, and a repeated completion
that closes what overlapping ones left open is `Close`.  `Recover` never occurs: in SQL
no notice finds a job with an unknown result (see section 5).

`WebhookPipelineProofs` proves of `WebhookPipeline`, for all notices with their ages, all
requests that carry them, all slots and bounds: `TypeCorrect`, `ProcessedProven`
(`ProcessedWasApplied`), `HandledProven` (`HandledOneAtATime`) and `ReviewProven`
(`ReviewNeverRegresses`).  The assumptions are `NoticeAssumption`, `WorkerAssumption` and
`BoundsAssumption`.

*The argument.*  The state of an event protects nothing, as markQueued writes over it.
Two handlers are kept apart by the job of the queue: only an active job is held
(`JobsAreHeld`), and a slot at work holds its notice's job unless the handling was
interrupted (`HoldersHandle`).  A processed event is an applied one by the order of the
handler's own steps and a review that only moves forward (`DoneIsApplied`): what an
earlier handler has applied cannot be undone by a later one.  "Applied" is what the
handler has to do for that notice (`Due`); which writes it skips, and for which notices,
are constants (`Receives`, `Scoped`), so that the theorems hold for every mixture.

`StoreRefreshProofs` proves of `StoreRefresh`, for all workers, launchers, quotas and
bounds: `TypeCorrect`, `ActiveProven` (`ActiveMeansRefreshing`), `MarkerProven`
(`MarkerCoversData`) and `ForwardProven` (the action property `NothingGoesBack`).  The
assumptions are `ProcessAssumption`, `QuotaAssumption` and `BoundsAssumption`.

*The argument.*  At most one job is active, because a claim times the old ones out first
(`OneActive`).  `ActiveExplained` follows the snapshot out of `refreshing`: whatever does
that ends the job, is about to, or is on record as torn or late.  `ReadsAreFresh` is the
key to the data: what the active job's worker has read and not yet stored is at least as
new as the stored data and as the last counted notice; a notice in between is the
exception that `MarkerCoversData` names.  `IdsAreNew` keeps the attempts of an entry
within their number, for the types.

`PublishBatchProofs` proves of `PublishBatch`, for every set of items, calls and drafts
and all bounds: `TypeCorrect`, `DocumentProven` (`DocumentIsCurrent`), `RunsProven`
(`RunsStandApart`), and the action properties `ConfirmedProven` (`WritesWereConfirmed`)
and `ConsumedProven` (`ConsumedAsPlanned`).  TLC's run has one item, so here the proof
reaches furthest beyond it.  The assumptions are `ItemsAssumption`, `SourceAssumption` and
`BoundsAssumption`.

*The argument.*  A recorded preflight numbers its candidates, so that a number and an
item name one candidate for ever (`CandidatesAreNumbered`, `ApprovedAreNumbered`): a
body that was confirmed is recognised by its number.  The document keeps to the
candidates (`DocumentInv`) because every write but recordPreflight compares it with what
the call has read, and a call knows what it read (`CallsKnow`).  Runs and jobs point at
each other (`RunsAreApproved`, `JobsNameRuns`), which leaves no job to two runs.  What a
worker has in hand needs a group of its own (`WorkersKnow`), because it may post long
after the draft, the item or the claim have changed: at the load the body is the
candidate of the item, and by its number the one that the plan of the job's run was
confirmed with; later nothing changes the body, the plan of a run or the confirmed ones.

`RuleRefreshProofs` proves of `RuleRefresh`, for all workers, launchers, schedulers,
targets, lanes and bounds: `TypeCorrect`, `SucceededProven` (`SucceededIsComplete`),
`RepairsProven` (`RetryRepairs`) and `MonthlyProven` (`MonthlyOnce`).  The assumptions are
`ProcessAssumption` and `BoundsAssumption`.

*The argument.*  Four groups, each with a description of what a step may do to it, so that
a handler that touches one of them leaves the others alone (`JobsFollow`, `NoneAdded`,
`AccountedNext`, `LaunchGoes`).

* An attempt accounts for its targets: each is stored, recorded as failed, read by a lane
  or still to be read (`TargetsAccounted`).  When the lanes are through, nothing is left
  of the last two, which is all that saveSuccess needs.  What other attempts do to the
  same job only adds to `stored`.
* The types need that lanes count: the progress of an attempt and the targets it still has
  are no more than all targets, and lanes at work and writes in the chain no more than the
  lanes (`SlotsWork`).  `Refilled` gives every free lane at most one target
  (`FirstAreFew`, an argument about cardinalities).
* A job that has ended keeps its state and its progress (`JobsFollow`), so that what a
  retry takes is what the partial failure recorded (`PartialIsSettled`, `RetriesFollow`).
* A scheduler at work holds its advisory lock until its session is lost
  (`LaunchesHoldLocks`); after its look at the jobs no other can claim for the same window
  (`DueIsFirst`).  An administrator's claim is not one of the window.

*The contract of `sync_jobs`.*  `StoreRefreshProofs`, `ComplianceCycleProofs` and
`RuleRefreshProofs` each prove `ContractImplemented`: `Spec => JobsKeepContract`, where
`Ledger` takes the states of the jobs as the contract's `state`.  Their `ReadersMayRely`
carries the two consequences over to the refresh.  Three facts are needed in each:

* At most one job is active (`OneActive`), so that a timeout, which the SQL writes for
  all quiet jobs at once, ends one job and is one `Fail`.
* Jobs are claimed in order (`JobsInOrder`), so that a claim takes the next
  number.  The claim's own timeout is part of the contract's `Claim`.
* A worker past its start has a job that is not `queued` any more (`WorkersStarted`,
  `SlotsStarted`).  The queries do not ask for it: they would let a `queued` job succeed.
  That this never happens follows from the order of the worker's steps and from there
  being no way back to `queued`.

A late worker, a second delivery and a failure that nobody waits for are steps that
leave the job as it is, so they stutter: that is where the refinement says most.
`JobsKeepContract` was checked with TLC on the constants of the runs `store_refresh`,
`compliance`, `rule_refresh` and `rule_schedule` before it was proved.  The consequences
of the write contract (`OwnersMayRely`) were checked on those of `protocol` and
`execution`; they follow from the steps of the contract alone (`ContractStepKeeps`).

*The outbox.*  `PublishProtocolProofs` also proves of `PublishOutbox`, for all commands,
dispatchers, ids that dispatchers may share, batch sizes and numbers of faults:

* `OutboxTypeCorrect`: `OutboxTypeOK`, which the run `outbox` checks.
* `OutboxSafe`: nothing is queued before the run has committed
  (`NothingBeforeCommit`), and what is dispatched was queued (`DispatchedWasQueued`).
* `DispatchedProven`: an event that was dispatched stays so (`DispatchedForGood`).

The assumptions are `IdsAssumption` and `BoundsAssumption`.  `OutboxInv` adds that
events are absent exactly before the commit (`EventsFollowRun`), that leases are on
events in work (`LeasesFollowEvents`), that a batch is of committed events
(`BatchesCommitted`) and that a dispatcher about to mark an event has added it
(`AddedIsQueued`).  The last one cannot speak of the lease, because another process with
the same id, or one that took over a lapsed lease, may be the one whose mark counts; nor
of the job in the queue, because BullMQ removes it when it is done.  It speaks of the
command having reached the queue, which nothing undoes.  TLC found `OutboxInv` and
`DispatchedForGood` to hold on the constants of the run `outbox` before the proof.

Only model-checked: the liveness properties (`EveryCommandDelivered`,
`EventuallyAllDispatched`, `AcceptedNoticeHandled`, `RefreshEnds` of both refreshes,
and `EveryRunEnds` of the title service), since liveness under fairness is beyond the
prover.  Every other property of a passing run is stated by a theorem.  The two
violation runs are counterexamples, and there is nothing to prove about them.

## 5. Findings

Each is a run that TLC must find violated; `PROJECT.json` quotes the line the code
disagrees with.

1. **A lapsed claim stays claimed** (`lapsed_claim`).  Claims are expired only when a
   command of the same job arrives; a command whose processor threw was removed from the
   queue and never arrives again.
2. **One request submitted twice makes two runs** (`duplicate_request`).  A repetition
   is recognised by what the first call has stored, and it stores nothing until its
   remote preflight has answered.

Four more places where documents and code part.  The modules model what the code does,
and no run is spent on them:

* Notices do not recover an unknown result.  A job without a stored SHEIN version matches
  no notice, and a job whose answer was lost has none, although
  `deploy/migrations/030_publish_execution_state.md:50` names the notices as the way out.
* A withdrawn review completes a batch.  The readback in SQL looks for some approval, not
  for the newest result, although `docs/REBUILD_HANDOFF_2026-08-03.md:2217` says that a
  withdrawal never completes.  (The in-memory protocol does look at the current result:
  `CompletedIsProven` holds there.)
* Expired rules start full refreshes at any time.  A stored schema is valid for half an
  hour, and outside the monthly window the scheduler refreshes every store that has an
  expired one, so that full refreshes are not monthly as `deploy/README.md:81-83` has it.
* An audit notice without tenant or store leaves the review as it was and is marked
  processed all the same (`webhook-production-projections.js:482-499`), although the
  comment at lines 951-954 says that an all-channel notice "cannot leave the current
  review state stale"; business notices are skipped likewise (535-553) and kept "for
  replay", which nothing does.  A store is missing when the open key is unknown
  (`shein-webhook.js:208-218`), and always on the trusted-proxy route
  (`webhook-server.js:264-268`).

Behaviour that the models show, that no document contradicts and that a maintainer
should know:

* Completions of the last two jobs may overlap and leave batch and run open (or the
  batch alone); repeating a revalidation closes them, but nothing schedules it.
* Overlapping failures of the last two items leave the batch `ready`, and a failure
  followed by a completion of the other item leaves it `ready`/`partial_failure` for
  good.
* The command path never calls `settleExecutionRun`, so a run with terminal failures
  stays `running` with both write flags on; `recordQueueFailure` has no caller.
* The draft is compared once, when the worker loads the body.  The executor then waits
  for the store's credential (`product-publish-executor.js:352`) and posts (368): a
  draft that is edited in between is sent as it was, and so is a body whose claim has
  expired meanwhile (`PostJob`; `WritesWereConfirmed` speaks of the draft at the load).
* The quota of a store without a product quota, or without a number for its limit, is not
  counted (`publish-execution-repository.js:679, 697`).
* Pausing a batch does not stop its jobs, and a job's failure makes a paused batch
  `ready` again.
* A failure of an older run marks the protocol of a newer one as partially failed; a
  completion of an older run marks an item completed that is being published again.
* An authorization that expired unused blocks the next one for the same plan until a new
  preflight changes the request keys.
* Two dispatchers with one process id (replicas in containers) can go on giving up each
  other's leases; commands are still delivered (`EveryCommandDelivered`), but the events
  need not come to rest (`EventuallyAllDispatched` needs distinct ids).
* An outbox event whose add always fails is retried for ever.
* A signed request that is repeated while its first copy is being stored, or after that
  copy's server died, is answered 200 because its replay key is taken
  (`DuplicateRequest`).  If SHEIN reads that answer, the notice may be stored nowhere.
  `docs/V2_DATA_PERMISSION_MODEL.md:81` asks for storing before anything else;
  `AcceptedNoticeHandled` therefore starts at what ingest accepted.
* A worker that dies after `claim`, or whose `markFailed` fails, leaves the event in
  `processing`, from which no claim takes it: the repeated job completes as skipped.
* `markQueued` and `markQueueFailed` write over whatever state the event has reached. A
  processed event may be shown as queued or received; its handler may then run again,
  which the handlers bear (`ProcessedWasApplied`, `ReviewNeverRegresses`).
* A notice that is counted between a refresh's read and its saveSuccess is taken for
  read: the snapshot shows old data without its marker until the next notice.
* saveSuccess and saveFailure do not look at their job.  A worker that was timed out may
  replace newer data by older, and may set the snapshot `ready` under a refresh that is
  still running.
* The queue's second attempt at a refresh or sync does nothing when saveFailure of the
  first has already ended the job; it works only if that failed as well.
* Consumed confirmation tokens live in one process's memory.  A restart within the five
  minutes of a token lets the same confirmation be submitted again
  (`docs/REBUILD_HANDOFF_2026-08-12_CONTINUE.md:731` promises one use within the process
  only; `docs/COMMERCIAL_ERP_EXECUTION_LEDGER_2026-08-28.md:139` lists it as open).
* Plans read the requirement that the last sync stored.  After a submission and before
  the next sync has ended, a second check and submit are planned from the state before
  the first, although `docs/REBUILD_HANDOFF_2026-08-12_CONTINUE.md:731` wants evidence in
  review not to be submitted again.
* A rule refresh that waits more than fifteen minutes behind those of other stores is
  failed when somebody lists the jobs, and its queue entry is then skipped.  For the
  schedule the month has been served.
* A failed write of the progress ends a rule refresh at once.  The targets it had not
  begun are in no list, so the retry of the failed targets does not cover them
  (`RetryRepairs` speaks of partial failures only).
* recordQueueFailure of one attempt may fail the job while the next attempt works; that
  attempt stores its snapshots and its success is not recorded.
* A failed read after `settingsRepository.save` has stored new AI settings leaves the
  cache as it was: results of the old settings are served until they expire
  (`ReadBackFails`; `CacheIsCurrent` therefore speaks of saves that cleared the cache).
* The timer of a title request is stopped when the headers of the answer are there.  A
  body that stalls holds its run, its slot and the queue behind it, and nothing in the
  service ends it (`ai-title-service.js:626-633`; `EveryRunEnds` assumes that bodies
  end).
* A suggestion that is asked for after a save may join a run that began before it and get
  a title of the old settings; that title is not cached.
* When saveBatch stored a batch but the update of the progress failed, its SKCs are saved
  again as failed and the sync ends as partial although every requirement is stored.

## 6. What the models leave out

* `PublishExecution`: the run-wide worker loop with `settleExecutionRun` and
  `recordQueueFailure` (nothing enqueues or calls them), photo uploads, read-only
  projections, the month rollover and the official notice of the quota, other runs that
  count against it, and a refresh that gives a store its limit during the run.
  Processing of a notice is one step that happens at most once per kind; how an event
  gets there is `WebhookPipeline`.
* `PublishBatch`: how `create` chooses drafts, the acknowledgement poll, the content of
  the remote check, two batches of one draft, several workers at one job (in
  `PublishExecution`), and the interleaving of a completion's
  statements with an authorization (a completion is one step here).
* `PublishProtocol`: the `documentStateQuery` stage, which nothing reads, and receipt
  payloads.
* `WebhookPipeline`: signatures, payload parsing and the expiry of replay keys (their
  request is too old by then); `saveProjection`, which only records it; authorization,
  stock and compliance notices, whose handlers have no other steps; the type that is only
  stored (`product_video_conversion_completed`), and events of tests.  A notice has one
  record, and a write that matches no row (an unknown product, a disabled store) counts as
  made.  A payload that always makes its handler throw is not told apart from a fault.
* `StoreRefresh`: the SPU, SKC and sales rows that saveSuccess writes in the same
  transaction, the process without a queue, the month rollover of the quota, and the
  out-of-stock list, which notices write and a refresh replaces.
* `ComplianceCycle`: uploads, attribute snapshots, credentials and the desktop executor;
  two control servers, which the deployment does not have; liveness, since nothing
  restarts a sync by itself.
* `RuleRefresh`: the content and versions of rules and how publishing reads them, the
  cache in memory, the process without a queue, several stores, and more than one month.
* `AiTitle`: the image cache, diagnostics, access rules and the content of prompts,
  settings and keys; a save without a key keeps the key that it read before, so that two
  overlapping saves may lose one; several tenants, whose saves share one epoch and one
  cache, so that a save of one only empties more than it must.
* Retries of failed SQL transactions: a transaction that fails changes nothing and
  appears as a crash or a call that dies.

## 7. Plan

Done: the two contracts, the nine specifications above, and the proofs of all their
safety properties, action properties and refinements.  Candidates for more:

1. Prove of `PublishExecution` and `PublishProtocol` how far a run in SQL is a behaviour
   of the protocol object, of which the two differ in what a withdrawal does; and of
   `PublishOutbox` that a lease has one holder while the dispatchers' ids differ and no
   lease lapses under its holder.
2. Extend: media references against clean-up once its query works, one-time tokens of
   accounts and devices.
