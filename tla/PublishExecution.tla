--------------------------- MODULE PublishExecution ---------------------------
(***************************************************************************)
(* One execution run of a publish batch as production executes it: the SQL *)
(* of publish-execution-repository.js, the command worker of               *)
(* product-publish-worker.js with the executor of                          *)
(* product-publish-executor.js, the webhook receipts, and the readbacks    *)
(* that complete a job.  Every SQL transaction is one action; everything   *)
(* between two of them interleaves: other workers, redelivered commands,   *)
(* lapsing leases, crashes, SHEIN's answers and its notices.  The two      *)
(* transactions whose outcome depends on rows that they do not lock show   *)
(* it under READ COMMITTED: the completion of a job is split in its        *)
(* statements, and a failure that overlapped another one may have read     *)
(* the other's item before it failed.                                      *)
(*                                                                         *)
(* External parts, modelled from how the code uses them: SHEIN (Process,   *)
(* Audit and the notices) and the BullMQ queue, which delivers a command   *)
(* at least once while its redelivery budget lasts.  An explicit error     *)
(* answer of SHEIN means that the write was not accepted.                  *)
(*                                                                         *)
(* Abstractions.  claim_id is a fresh UUID per claim, so the claim of the  *)
(* n-th attempt is n and 0 is NULL.  Time is one fact per job, lapsed:     *)
(* claim_expires_at has passed.  A job's rows in publish_receipts are the  *)
(* set of their kinds (every insert is ON CONFLICT DO NOTHING).  The quota *)
(* is counted from the start of the run, in a store with a known limit or  *)
(* without one; SHEIN reports none meanwhile.                              *)
(***************************************************************************)
EXTENDS Naturals, FiniteSets

CONSTANTS
    Jobs,               \* the publish_jobs rows of the run, one per batch item
    Workers,            \* concurrent consumers of the publish queue
    NoJob,              \* no job
    MaxAttempts,        \* bound on attempt_count, for the model only
    MaxRedeliveries     \* bound on extra deliveries of commands

ASSUME JobsAssumption == Jobs # {} /\ IsFiniteSet(Jobs)
ASSUME NoJobAssumption == NoJob \notin Jobs
ASSUME BoundsAssumption == MaxAttempts \in Nat /\ MaxRedeliveries \in Nat

VARIABLES
    run,            \* publish_execution_runs: state and the two write flags
    state,          \* publish_jobs.state
    attemptCount,   \* publish_jobs.attempt_count
    claim,          \* publish_jobs.claim_id, 0 when NULL
    lapsed,         \* publish_jobs.claim_expires_at has passed
    version,        \* publish_jobs.shein_version is not NULL
    receipts,       \* kinds of the job's rows in publish_receipts
    closing,        \* the open completion transaction of the job: what it saw
    item,           \* publish_batch_items.state
    batch,          \* publish_batches: state and executionProtocol.state
    quota,          \* productQuota in the store's snapshot: whether it has a limit,
                    \* and what localConsumedThisMonth counts of the run
    worker,         \* each worker's progress through processProductPublishRun
    overlapped,     \* workers whose open transaction overlaps a failure's
    command,        \* BullMQ: where the job's command is
    redeliveries,   \* BullMQ: extra deliveries so far
    inflight,       \* publishOrEdit requests SHEIN has not processed yet
    accepted,       \* SHEIN: writes accepted for the job
    audit,          \* SHEIN: review result of the accepted product
    notices         \* webhook events sent and not yet processed

jobVars    == <<state, attemptCount, claim, lapsed, version, receipts, closing>>
batchVars  == <<item, batch, quota>>
workerVars == <<worker, overlapped>>
queueVars  == <<command, redeliveries>>
sheinVars  == <<inflight, accepted, audit, notices>>
vars == <<run, jobVars, batchVars, workerVars, queueVars, sheinVars>>

-----------------------------------------------------------------------------
(* States                                                                  *)

JobStates == {"authorized", "claimed", "submitted", "result_unknown",
              "failed_retryable", "failed_terminal", "completed"}
NoticeKinds  == {"received", "passed", "revoked"}
ReceiptKinds == NoticeKinds \cup {"submitted", "readback", "compliance"}
Replies      == {"accepted", "retryable", "terminal"}
Outcomes     == Replies \cup {"unknown"}
Steps        == {"idle", "claim", "load", "call", "wait", "record"}

Idle == [step |-> "idle", job |-> NoJob, claim |-> 0, outcome |-> "unknown"]

Init ==
    /\ run = [state |-> "issued", enabled |-> FALSE]
    /\ state = [j \in Jobs |-> "authorized"]
    /\ attemptCount = [j \in Jobs |-> 0]
    /\ claim = [j \in Jobs |-> 0]
    /\ lapsed = [j \in Jobs |-> FALSE]
    /\ version = [j \in Jobs |-> FALSE]
    /\ receipts = [j \in Jobs |-> {}]
    /\ closing = [j \in Jobs |-> "no"]
    /\ item = [j \in Jobs |-> "ready"]
    /\ batch = [state |-> "ready", protocol |-> "issued"]
    /\ quota \in [known : BOOLEAN, consumed : {0}]
    /\ worker = [w \in Workers |-> Idle]
    /\ overlapped = {}
    /\ command = [j \in Jobs |-> "none"]
    /\ redeliveries = 0
    /\ inflight = {}
    /\ accepted = [j \in Jobs |-> 0]
    /\ audit = [j \in Jobs |-> "none"]
    /\ notices = {}

\* The transaction of consumeExecutionProtocol: the run starts, the batch's
\* protocol follows, and every job gets its command.
Consume ==
    /\ run.state = "issued"
    /\ batch.state = "ready"
    /\ run' = [state |-> "running", enabled |-> TRUE]
    /\ batch' = [batch EXCEPT !.protocol = "running"]
    /\ command' = [j \in Jobs |-> "waiting"]
    /\ UNCHANGED <<jobVars, item, quota, workerVars, redeliveries, sheinVars>>

-----------------------------------------------------------------------------
(* The command queue                                                       *)

\* The command of a finished call leaves the queue (removeOnComplete and
\* removeOnFail), unless the worker lost the lock on it meanwhile.
Release(w) ==
    command' = [j \in Jobs |->
                   IF j = worker[w].job /\ command[j] = w THEN "none" ELSE command[j]]

Finish(w) ==
    /\ worker' = [worker EXCEPT ![w] = Idle]
    /\ overlapped' = overlapped \ {w}
    /\ Release(w)
    /\ UNCHANGED redeliveries

\* The command is delivered again: its lock expired (the worker died or
\* stalled), or the dispatcher enqueued it twice.
Redeliver(j) ==
    /\ run.state # "issued"
    /\ command[j] # "waiting"
    /\ redeliveries < MaxRedeliveries
    /\ command' = [command EXCEPT ![j] = "waiting"]
    /\ redeliveries' = redeliveries + 1
    /\ UNCHANGED <<run, jobVars, batchVars, workerVars, sheinVars>>

\* The worker process dies; what it was doing is forgotten.
Crash(w) ==
    /\ worker[w].step # "idle"
    /\ worker' = [worker EXCEPT ![w] = Idle]
    /\ overlapped' = overlapped \ {w}
    /\ UNCHANGED <<run, jobVars, batchVars, queueVars, sheinVars>>

-----------------------------------------------------------------------------
(* The worker: processProductPublishRun with a commandId                   *)

\* Mutant: a lapsed claim is simply given back.
LapsedIsGivenBack == "authorized"

\* What becomes of a job whose worker let the claim lapse.
LapsedState == "result_unknown"

\* markExpiredClaimsUnknown, for the command's job.
StartCommand(w, j) ==
    /\ worker[w].step = "idle"
    /\ command[j] = "waiting"
    /\ command' = [command EXCEPT ![j] = w]
    /\ worker' = [worker EXCEPT ![w] = [Idle EXCEPT !.step = "claim", !.job = j]]
    /\ IF state[j] = "claimed" /\ lapsed[j]
       THEN /\ state' = [state EXCEPT ![j] = LapsedState]
            /\ claim' = [claim EXCEPT ![j] = 0]
            /\ lapsed' = [lapsed EXCEPT ![j] = FALSE]
       ELSE UNCHANGED <<state, claim, lapsed>>
    /\ UNCHANGED <<run, attemptCount, version, receipts, closing, batchVars, overlapped,
                   redeliveries, sheinVars>>

\* Mutant: an unknown result may be tried again.
RetriesUnknown(j) ==
    /\ run.state = "running"
    /\ run.enabled
    /\ state[j] \in {"authorized", "failed_retryable", "result_unknown"}

ClaimableJob(j) ==
    /\ run.state = "running"
    /\ run.enabled
    /\ state[j] \in {"authorized", "failed_retryable"}

\* claimNextJob
ClaimNextJob(w) ==
    LET j == worker[w].job IN
    /\ worker[w].step = "claim"
    /\ ClaimableJob(j)
    /\ attemptCount[j] < MaxAttempts
    /\ state' = [state EXCEPT ![j] = "claimed"]
    /\ attemptCount' = [attemptCount EXCEPT ![j] = @ + 1]
    /\ claim' = [claim EXCEPT ![j] = attemptCount[j] + 1]
    /\ lapsed' = [lapsed EXCEPT ![j] = FALSE]
    /\ worker' = [worker EXCEPT ![w].step = "load", ![w].claim = attemptCount[j] + 1]
    /\ UNCHANGED <<run, version, receipts, closing, batchVars, overlapped, queueVars, sheinVars>>

\* Nothing to claim: the command is done.
NothingToClaim(w) ==
    /\ worker[w].step = "claim"
    /\ ~ClaimableJob(worker[w].job)
    /\ Finish(w)
    /\ UNCHANGED <<run, jobVars, batchVars, sheinVars>>

\* claim_expires_at passes.
LeaseLapses(j) ==
    /\ state[j] = "claimed"
    /\ ~lapsed[j]
    /\ lapsed' = [lapsed EXCEPT ![j] = TRUE]
    /\ UNCHANGED <<run, state, attemptCount, claim, version, receipts, closing,
                   batchVars, workerVars, queueVars, sheinVars>>

\* The worker's claim is still the one on record.
HoldsClaim(w) ==
    /\ state[worker[w].job] = "claimed"
    /\ claim[worker[w].job] = worker[w].claim

\* loadClaimedExecutionSource: the candidate may have changed since the
\* authorization, and a lost claim loads nothing; both end as a terminal
\* failure without a call.
LoadSource(w) ==
    /\ worker[w].step = "load"
    /\ \/ /\ HoldsClaim(w) /\ run.enabled
          /\ worker' = [worker EXCEPT ![w].step = "call"]
       \/ worker' = [worker EXCEPT ![w].step = "record", ![w].outcome = "terminal"]
    /\ UNCHANGED <<run, jobVars, batchVars, overlapped, queueVars, sheinVars>>

\* The processor throws (the executor finds no usable credential, or a database
\* call fails): the command is removed, a claim stays.
Throws(w) ==
    /\ worker[w].step \in {"claim", "load", "call", "record"}
    /\ Finish(w)
    /\ UNCHANGED <<run, jobVars, batchVars, sheinVars>>

\* The executor posts to publishOrEdit.
CallShein(w) ==
    /\ worker[w].step = "call"
    /\ worker' = [worker EXCEPT ![w].step = "wait"]
    /\ inflight' = inflight \cup {<<worker[w].job, worker[w].claim>>}
    /\ UNCHANGED <<run, jobVars, batchVars, overlapped, queueVars, accepted, audit, notices>>

\* SHEIN decides a request, whether or not its sender still waits, and answers.
Process(j, c) ==
    /\ <<j, c>> \in inflight
    /\ inflight' = inflight \ {<<j, c>>}
    /\ \E reply \in Replies :
        /\ accepted' = [accepted EXCEPT ![j] = IF reply = "accepted" THEN @ + 1 ELSE @]
        /\ worker' = [w \in Workers |->
              IF worker[w].step = "wait" /\ worker[w].job = j /\ worker[w].claim = c
              THEN [worker[w] EXCEPT !.step = "record", !.outcome = reply]
              ELSE worker[w]]
    /\ UNCHANGED <<run, jobVars, batchVars, overlapped, queueVars, audit, notices>>

\* Network error, timeout, or an answer lost or incomplete: outcome unknown,
\* before SHEIN processed the request or after it.
AnswerLost(w) ==
    /\ \/ worker[w].step = "wait"
       \/ worker[w].step = "record" /\ worker[w].outcome = "accepted"
    /\ worker' = [worker EXCEPT ![w].step = "record", ![w].outcome = "unknown"]
    /\ UNCHANGED <<run, jobVars, batchVars, overlapped, queueVars, sheinVars>>

\* localConsumedThisMonth after a publish response: without productQuota, or with
\* no number for a limit in it, the statement updates no row.
Counted == IF quota.known THEN quota.consumed + 1 ELSE quota.consumed

\* recordSubmitted: receipt, version and the local quota in one transaction.
RecordSubmitted(j) ==
    /\ state' = [state EXCEPT ![j] = "submitted"]
    /\ version' = [version EXCEPT ![j] = TRUE]
    /\ receipts' = [receipts EXCEPT ![j] = @ \cup {"submitted"}]
    /\ quota' = [quota EXCEPT !.consumed = Counted]
    /\ UNCHANGED <<item, batch>>

\* The batch after a definite failure: items that are not failed or completed
\* keep it ready.
PartialFailure == [state |-> "ready", protocol |-> "partial_failure"]

\* Mutant: the protocol's word for a partial failure lands in the batch's state.
MisplacedState(items) == [state |-> "partial_failure", protocol |-> "failed"]

FailedBatch(items) ==
    IF \E j \in Jobs : items[j] = "ready"
    THEN PartialFailure
    ELSE [state |-> "failed", protocol |-> "failed"]

\* recordExecutionFailure.  A transaction that overlaps the failure of another
\* job may have looked at the other item before.
RecordFailure(w, j, outcome) ==
    /\ state' = [state EXCEPT ![j] =
                    CASE outcome = "unknown"   -> "result_unknown"
                      [] outcome = "retryable" -> "failed_retryable"
                      [] outcome = "terminal"  -> "failed_terminal"]
    /\ IF outcome = "unknown"
       THEN UNCHANGED <<item, batch>>
       ELSE /\ item' = [item EXCEPT ![j] = IF @ = "completed" THEN @ ELSE "failed"]
            /\ \/ batch' = FailedBatch(item')
               \/ w \in overlapped /\ batch' = PartialFailure
    /\ UNCHANGED <<version, receipts, quota>>

\* Transactions that may be open while this one commits.
OverlapOthers(w) ==
    overlapped' = (overlapped \cup {v \in Workers : worker[v].step = "record"}) \ {w}

\* The outcome reaches the database while the claim is still on record.
RecordOutcome(w) ==
    LET j == worker[w].job IN
    /\ worker[w].step = "record"
    /\ HoldsClaim(w)
    /\ IF worker[w].outcome = "accepted"
       THEN RecordSubmitted(j) /\ overlapped' = overlapped \ {w}
       ELSE RecordFailure(w, j, worker[w].outcome) /\ OverlapOthers(w)
    /\ claim' = [claim EXCEPT ![j] = 0]
    /\ lapsed' = [lapsed EXCEPT ![j] = FALSE]
    /\ worker' = [worker EXCEPT ![w] = Idle]
    /\ Release(w)
    /\ UNCHANGED <<run, attemptCount, closing, redeliveries, sheinVars>>

\* The claim is gone: no row is updated, a receipt in hand is dropped (the
\* worker throws), and the command ends.
OutcomeTooLate(w) ==
    /\ worker[w].step = "record"
    /\ ~HoldsClaim(w)
    /\ Finish(w)
    /\ UNCHANGED <<run, jobVars, batchVars, sheinVars>>

-----------------------------------------------------------------------------
(* Notices and readbacks                                                   *)

\* SHEIN tells that it received an accepted product.
SendReceived(j) ==
    /\ accepted[j] > 0
    /\ audit[j] = "none"
    /\ audit' = [audit EXCEPT ![j] = "pending"]
    /\ notices' = notices \cup {<<j, "received">>}
    /\ UNCHANGED <<run, jobVars, batchVars, workerVars, queueVars, inflight, accepted>>

\* SHEIN approves the product, or fails or withdraws it, once each.
SendAudit(j) ==
    /\ \/ audit[j] = "pending" /\ audit' = [audit EXCEPT ![j] = "passed"]
       \/ audit[j] \in {"pending", "passed"} /\ audit' = [audit EXCEPT ![j] = "revoked"]
    /\ notices' = notices \cup {<<j, audit'[j]>>}
    /\ UNCHANGED <<run, jobVars, batchVars, workerVars, queueVars, inflight, accepted>>

\* #appendExternalReceipts finds the job by document number or version, which
\* only a stored publish response or an earlier match put there.
Matches(j) == version[j]

\* A notice that matches its job, in whatever order notices arrive.
AppendReceipt(j, kind) ==
    /\ <<j, kind>> \in notices
    /\ Matches(j)
    /\ closing[j] = "no"
    /\ notices' = notices \ {<<j, kind>>}
    /\ receipts' = [receipts EXCEPT ![j] = @ \cup {kind}]
    /\ state' = [state EXCEPT ![j] = IF @ = "result_unknown" THEN "submitted" ELSE @]
    /\ UNCHANGED <<run, attemptCount, claim, lapsed, version, closing, batchVars,
                   workerVars, queueVars, inflight, accepted, audit>>

\* A notice that matches no job is counted, and its event is done.
UnmatchedReceipt(j, kind) ==
    /\ <<j, kind>> \in notices
    /\ ~Matches(j)
    /\ notices' = notices \ {<<j, kind>>}
    /\ UNCHANGED <<run, jobVars, batchVars, workerVars, queueVars, inflight, accepted, audit>>

\* Mutant: reception is taken for approval.
ReceptionApproves(j) == "received" \in receipts[j]

\* Some approval is on record, the newest or not.
Approved(j) == "passed" \in receipts[j]

\* appendSpuReadbackReceipt
AppendSpuReadback(j) ==
    /\ version[j]
    /\ Approved(j)
    /\ closing[j] = "no"
    /\ receipts' = [receipts EXCEPT ![j] = @ \cup {"readback"}]
    /\ UNCHANGED <<run, state, attemptCount, claim, lapsed, version, closing, batchVars,
                   workerVars, queueVars, sheinVars>>

\* Mutant: a submitted job counts as finished.
OthersSubmitted(j) == \A k \in Jobs \ {j} : state[k] \in {"submitted", "completed"}

\* Every other job of the run is completed, and committed.
OthersCompleted(j) == \A k \in Jobs \ {j} : state[k] = "completed"

\* appendComplianceRevalidationReceipt with a passing projection, for a job that
\* it completes or finds completed.  The transaction locks the job and its item, then asks in the
\* batch's update and once more in the run's update whether all other jobs are
\* completed: closing is "both" when the first found it so, "run" when only the
\* second did, "neither" otherwise.
BeginCompletion(j) ==
    /\ version[j]
    /\ "readback" \in receipts[j]
    /\ state[j] \in {"submitted", "result_unknown", "completed"}
    /\ closing[j] = "no"
    /\ closing' = [closing EXCEPT ![j] = IF OthersCompleted(j) THEN "both" ELSE "neither"]
    /\ UNCHANGED <<run, state, attemptCount, claim, lapsed, version, receipts,
                   batchVars, workerVars, queueVars, sheinVars>>

\* The other jobs complete between the two updates.
CompletionSeesRest(j) ==
    /\ closing[j] = "neither"
    /\ OthersCompleted(j)
    /\ closing' = [closing EXCEPT ![j] = "run"]
    /\ UNCHANGED <<run, state, attemptCount, claim, lapsed, version, receipts,
                   batchVars, workerVars, queueVars, sheinVars>>

\* COMMIT
CommitCompletion(j) ==
    /\ closing[j] # "no"
    /\ closing' = [closing EXCEPT ![j] = "no"]
    /\ receipts' = [receipts EXCEPT ![j] = @ \cup {"compliance"}]
    /\ state' = [state EXCEPT ![j] = "completed"]
    /\ item' = [item EXCEPT ![j] = "completed"]
    /\ batch' = IF closing[j] = "both"
                THEN [state |-> "completed", protocol |-> "completed"]
                ELSE batch
    /\ run' = IF closing[j] \in {"both", "run"} /\ run.state = "running"
              THEN [state |-> "completed", enabled |-> FALSE]
              ELSE run
    /\ UNCHANGED <<attemptCount, claim, lapsed, version, quota, workerVars,
                   queueVars, sheinVars>>

-----------------------------------------------------------------------------
WorkerStep(w) ==
    \/ \E j \in Jobs : StartCommand(w, j)
    \/ ClaimNextJob(w) \/ NothingToClaim(w)
    \/ LoadSource(w)
    \/ CallShein(w)
    \/ RecordOutcome(w) \/ OutcomeTooLate(w)

WorkerFault(w) == Crash(w) \/ Throws(w) \/ AnswerLost(w)

SheinStep(j) ==
    \/ \E c \in 1..MaxAttempts : Process(j, c)
    \/ SendReceived(j)
    \/ SendAudit(j)

ReceiptStep(j) ==
    \/ \E kind \in NoticeKinds : AppendReceipt(j, kind) \/ UnmatchedReceipt(j, kind)
    \/ AppendSpuReadback(j)
    \/ BeginCompletion(j) \/ CompletionSeesRest(j) \/ CommitCompletion(j)

Next ==
    \/ Consume
    \/ \E w \in Workers : WorkerStep(w) \/ WorkerFault(w)
    \/ \E j \in Jobs : LeaseLapses(j) \/ Redeliver(j) \/ SheinStep(j) \/ ReceiptStep(j)

Spec == Init /\ [][Next]_vars

\* The worker that holds the command is not working on it any more.
Stalled(j) == \E w \in Workers : command[j] = w /\ worker[w].job # j

\* Idle workers take waiting commands and a started one is finished, leases
\* lapse, SHEIN answers, and BullMQ notices a stalled command.
Fairness ==
    /\ WF_vars(Consume)
    /\ \A w \in Workers : WF_vars(WorkerStep(w))
    /\ \A j \in Jobs :
          /\ WF_vars(LeaseLapses(j))
          /\ WF_vars(Stalled(j) /\ Redeliver(j))
          /\ WF_vars(\E c \in 1..MaxAttempts : Process(j, c))

FairSpec == Spec /\ Fairness

-----------------------------------------------------------------------------
(* Properties                                                              *)

TypeOK ==
    /\ run \in [state : {"issued", "running", "completed"}, enabled : BOOLEAN]
    /\ state \in [Jobs -> JobStates]
    /\ attemptCount \in [Jobs -> 0..MaxAttempts]
    /\ claim \in [Jobs -> 0..MaxAttempts]
    /\ lapsed \in [Jobs -> BOOLEAN]
    /\ version \in [Jobs -> BOOLEAN]
    /\ receipts \in [Jobs -> SUBSET ReceiptKinds]
    /\ closing \in [Jobs -> {"no", "neither", "run", "both"}]
    /\ item \in [Jobs -> {"ready", "failed", "completed"}]
    /\ batch \in [state : {"ready", "failed", "completed"},
                  protocol : {"issued", "running", "partial_failure", "failed", "completed"}]
    /\ quota \in [known : BOOLEAN, consumed : Nat]
    /\ worker \in [Workers -> [step : Steps, job : Jobs \cup {NoJob},
                              claim : 0..MaxAttempts, outcome : Outcomes]]
    /\ overlapped \subseteq Workers
    /\ \A w \in Workers : worker[w].step # "idle" => worker[w].job \in Jobs
    /\ command \in [Jobs -> {"none", "waiting"} \cup Workers]
    /\ redeliveries \in 0..MaxRedeliveries
    /\ inflight \subseteq Jobs \X (1..MaxAttempts)
    /\ accepted \in [Jobs -> Nat]
    /\ audit \in [Jobs -> {"none", "pending", "passed", "revoked"}]
    /\ notices \subseteq Jobs \X NoticeKinds

\* SHEIN never accepts the same job twice.
AtMostOneAcceptedWrite == \A j \in Jobs : accepted[j] <= 1

\* No two publishOrEdit requests of one job are on their way at the same time,
\* counting requests whose worker has given up on them.
OneWriteInFlight ==
    \A j \in Jobs :
        /\ \A r, q \in inflight : r[1] = j /\ q[1] = j => r = q
        /\ \A w, v \in Workers :
              /\ worker[w].step \in {"call", "wait"} /\ worker[w].job = j
              /\ worker[v].step \in {"call", "wait"} /\ worker[v].job = j
              => w = v

\* However commands are redelivered, workers stall or die and answers get lost,
\* no product is written twice, nor may it be at any moment.
NoDoubleWrite == AtMostOneAcceptedWrite /\ OneWriteInFlight

\* A run is closed by completion only: no job waits for an outcome or a
\* readback under a closed run, and writes are enabled exactly while it runs.
RunClosedByCompletionOnly ==
    /\ run.enabled <=> run.state = "running"
    /\ run.state = "issued" => \A j \in Jobs : state[j] = "authorized"
    /\ run.state = "completed" => \A j \in Jobs : state[j] = "completed"

\* A completed job was accepted, its receipt is stored, it was approved at some
\* time and read back, and its batch item is completed with it.
CompletedHasEvidence ==
    \A j \in Jobs :
        state[j] = "completed" =>
            /\ accepted[j] = 1
            /\ {"submitted", "passed", "readback", "compliance"} \subseteq receipts[j]
            /\ item[j] = "completed"

\* Where the store's snapshot has a limit, the local quota projection counts every
\* stored publish response, and each once; where it has none, nothing is counted.
\* SHEIN accepted every write whose response is stored.
QuotaCountsReceipts ==
    LET submitted == {j \in Jobs : "submitted" \in receipts[j]} IN
    /\ quota.consumed = IF quota.known THEN Cardinality(submitted) ELSE 0
    /\ \A j \in submitted : accepted[j] = 1

\* What completed a job and what was counted for it did happen at SHEIN.
ReceiptsAreTrue == CompletedHasEvidence /\ QuotaCountsReceipts

\* The batch projection: completed only with its run, failed only when no item
\* is left to publish, and an item is failed or completed when its job is.
BatchFollowsJobs ==
    /\ batch.state = "completed" => run.state = "completed"
    /\ batch.state = "failed" => \A j \in Jobs : item[j] # "ready"
    /\ \A j \in Jobs : item[j] = "completed" <=> state[j] = "completed"
    /\ \A j \in Jobs : state[j] \in {"failed_retryable", "failed_terminal"} => item[j] = "failed"

\* Run, batch and items, written by overlapping transactions that do not lock
\* each other's rows, never claim more than the jobs have done.
ProjectionsAgree == RunClosedByCompletionOnly /\ BatchFollowsJobs

-----------------------------------------------------------------------------
(* What the documents say and the code does not do                         *)

\* Migration 030 says that a lapsed claim turns into result_unknown.
LapsedClaimsBecomeUnknown ==
    \A j \in Jobs : state[j] = "claimed" /\ lapsed[j] ~> state[j] # "claimed"

-----------------------------------------------------------------------------
\* The run seen through the write contract: whatever storage, workers, queue
\* and notices do, a job's write is granted once per explicit retryable failure.
Contract == INSTANCE PublishWriteContract
    WITH Requests <- Jobs,
         open <- run.state = "running",
         phase <- state,
         attempts <- attemptCount

ImplementsContract == Contract!Spec
=============================================================================
