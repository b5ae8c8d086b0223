---------------------------- MODULE PublishBatch ----------------------------
(***************************************************************************)
(* The life of a publish batch up to its execution, from                   *)
(* publish-batch-service.js: remote preflight, confirmation, execution     *)
(* plan, one-shot authorization, consumption, pause and retry, and         *)
(* publishNow, which calls them in a row.  Concurrent calls read the batch *)
(* in one transaction and write it in a later one, after a remote check    *)
(* or not; the writes compare the preflight document they read.            *)
(*                                                                         *)
(* The batch is one that publishNow created under an idempotency key; a    *)
(* batch of create admits the same calls except publishNow.                *)
(*                                                                         *)
(* Abstractions.  A remote candidate is the number of the preflight that   *)
(* prepared it (its fingerprint covers the time of the check) with the     *)
(* version of the draft it was prepared from.  A request key is a          *)
(* fingerprint of item and candidate, so a job is named by item and        *)
(* generation.  The workers are PublishExecution's, in their steps on the  *)
(* batch: claim, load, request, outcome, completion.                       *)
(***************************************************************************)
EXTENDS Naturals

CONSTANTS
    Items,          \* publish_batch_items of the batch
    Sessions,       \* calls of the service in progress
    Versions,       \* publishable contents of a draft
    NoSource,       \* the draft has no valid candidate: locally blocked
    MaxGen,         \* bound on recorded preflights, for the model only
    MaxRuns         \* bound on execution runs, for the model only

ASSUME ItemsAssumption == Items # {}
ASSUME SourceAssumption == Versions # {} /\ NoSource \notin Versions
ASSUME BoundsAssumption == MaxGen \in Nat /\ MaxRuns \in Nat

VARIABLES
    draft,          \* product_drafts: source candidate of each item
    batch,          \* publish_batches.state
    item,           \* publish_batch_items.state
    candidate,      \* publish_batch_items.preflight.remotePublishCandidate
    pf,             \* publish_batches.preflight
    generation,     \* preflights recorded so far
    run,            \* publish_execution_runs, in order of authorization
    job,            \* publish_jobs, by item and generation
    call,           \* the call of the worker that claimed the job: step and body
    session,        \* progress of each call
    approved        \* candidates that were confirmed, with their item

batchVars == <<batch, item, candidate, pf, generation>>
runVars   == <<run, job, call>>
vars == <<draft, batchVars, runVars, session, approved>>

-----------------------------------------------------------------------------
(* States                                                                  *)

Sources      == Versions \cup {NoSource}
Generations  == 1..MaxGen
RunIds       == 1..MaxRuns
Candidate    == [gen : 0..MaxGen, source : Sources]
NoCandidate  == [gen |-> 0, source |-> NoSource]
NoSnapshot   == [i \in Items |-> NoCandidate]
OpenStates   == {"queued", "preflighting", "ready", "paused"}
States       == OpenStates \cup {"failed", "completed"}
ProtocolStates == {"none", "issued", "running", "partial_failure", "failed", "completed"}
\* "submitted" stands for result_unknown as well.
JobStates    == {"none", "authorized", "claimed", "submitted",
                 "failed_retryable", "failed_terminal", "completed"}
CallSteps    == {"none", "load", "post", "wait"}
Actions      == {"preflight", "confirm", "plan-execution", "authorize-execution", "execute"}

\* The preflight document: confirmed and planned snapshot, and the protocol
\* with the run that it belongs to.
Empty == [direct |-> FALSE, confirmed |-> NoSnapshot, plan |-> NoSnapshot,
          runId |-> 0, protocol |-> "none"]
NoRun == [state |-> "none", plan |-> NoSnapshot, live |-> FALSE]
NoJob == [state |-> "none", runId |-> 0]
NoCall == [step |-> "none", body |-> NoCandidate]
Idle  == [step |-> "idle", action |-> "preflight", direct |-> FALSE,
          pf |-> Empty, candidate |-> NoSnapshot, draft |-> [i \in Items |-> NoSource]]

Init ==
    /\ draft \in [Items -> Versions]
    /\ batch = "queued"
    /\ item = [i \in Items |-> "queued"]
    /\ candidate = NoSnapshot
    /\ pf = Empty
    /\ generation = 0
    /\ run = [r \in RunIds |-> NoRun]
    /\ job = [i \in Items |-> [g \in Generations |-> NoJob]]
    /\ call = [i \in Items |-> [g \in Generations |-> NoCall]]
    /\ session = [s \in Sessions |-> Idle]
    /\ approved = {}

\* The draft is edited, and perhaps not publishable any more.
EditDraft(i) ==
    /\ \E source \in Sources \ {draft[i]} : draft' = [draft EXCEPT ![i] = source]
    /\ UNCHANGED <<batchVars, runVars, session, approved>>

\* The ten minutes of an authorization are over before it is consumed.
AuthorizationDeadline(r) ==
    /\ run[r].live
    /\ run' = [run EXCEPT ![r].live = FALSE]
    /\ UNCHANGED <<draft, batchVars, job, call, session, approved>>

-----------------------------------------------------------------------------
(* Calls                                                                   *)

\* The calls that publishNow makes, in order.
After(action) ==
    CASE action = "preflight"           -> "confirm"
      [] action = "confirm"             -> "plan-execution"
      [] action = "plan-execution"      -> "authorize-execution"
      [] action = "authorize-execution" -> "execute"

Stop(s) == session' = [session EXCEPT ![s] = Idle]

\* A call of a session returns; publishNow goes on with its next call.
Return(s) ==
    IF session[s].direct /\ session[s].action # "execute"
    THEN session' = [session EXCEPT ![s] = [Idle EXCEPT !.step = "call",
                         !.action = After(session[s].action), !.direct = TRUE]]
    ELSE Stop(s)

\* publishNow: create finds the batch of the idempotency key untouched.  Any
\* sign of an earlier call makes it a replay that writes nothing.
BeginPublishNow(s) ==
    /\ session[s].step = "idle"
    /\ ~pf.direct /\ batch = "queued" /\ \A i \in Items : item[i] = "queued"
    /\ session' = [session EXCEPT ![s] = [Idle EXCEPT !.step = "call", !.direct = TRUE]]
    /\ UNCHANGED <<draft, batchVars, runVars, approved>>

-----------------------------------------------------------------------------
(* Reading: what a call decides before it writes                           *)

\* confirmationSnapshot: every item ready, its candidate prepared from the
\* draft as it is now.
Frozen ==
    /\ batch = "ready"
    /\ \A i \in Items :
          item[i] = "ready" /\ candidate[i] # NoCandidate /\ candidate[i].source = draft[i]

Confirmed == Frozen /\ pf.confirmed = candidate
Planned   == Confirmed /\ pf.plan = candidate

\* isPublishExecutionAuthorizationActive, for the stored plan.
Authorized ==
    /\ pf.protocol = "issued"
    /\ run[pf.runId].live
    /\ run[pf.runId].plan = pf.plan

\* The call goes on to write.
Proceeds(action, direct) ==
    CASE action = "preflight"           -> direct \/ batch \notin {"paused", "ready"}
      [] action = "confirm"             -> Frozen /\ ~Confirmed
      [] action = "plan-execution"      -> Confirmed /\ ~Planned
      [] action = "authorize-execution" -> Planned /\ ~Authorized
      [] action = "execute"             -> pf.protocol = "issued" /\ run[pf.runId].live

\* The call has nothing to do and succeeds.
Replays(action) ==
    CASE action = "preflight"           -> FALSE
      [] action = "confirm"             -> Confirmed
      [] action = "plan-execution"      -> Planned
      [] action = "authorize-execution" -> Planned /\ Authorized
      [] action = "execute"             -> pf.protocol = "running"

\* What the write will use of the batch, its items and their drafts.
Reading(action, direct) ==
    [step      |-> IF action = "preflight" /\ ~direct THEN "mark" ELSE "write",
     action    |-> action,
     direct    |-> direct,
     pf        |-> IF action = "preflight" THEN Empty ELSE pf,
     candidate |-> IF action \in {"confirm", "plan-execution"} THEN candidate ELSE NoSnapshot,
     draft     |-> IF action = "preflight" THEN draft ELSE Idle.draft]

\* A user calls act; pause, resume and retry are actions of their own, and a
\* call that replays or throws at once changes nothing.
Act(s, action) ==
    /\ session[s].step = "idle"
    /\ Proceeds(action, FALSE)
    /\ session' = [session EXCEPT ![s] = Reading(action, FALSE)]
    /\ UNCHANGED <<draft, batchVars, runVars, approved>>

\* publishNow makes its next call.
Read(s) ==
    LET action == session[s].action IN
    /\ session[s].step = "call"
    /\ CASE Proceeds(action, TRUE) -> session' = [session EXCEPT ![s] = Reading(action, TRUE)]
         [] Replays(action)        -> Return(s)
         [] OTHER                  -> Stop(s)
    /\ UNCHANGED <<draft, batchVars, runVars, approved>>

-----------------------------------------------------------------------------
(* Writing                                                                 *)

Writes(s, action) == session[s].step = "write" /\ session[s].action = action

\* setState
SetState(state) ==
    /\ batch' = state
    /\ item' = [i \in Items |-> IF item[i] = "completed" THEN "completed" ELSE state]
    /\ UNCHANGED <<candidate, pf, generation>>

\* act pause, and act resume or retry: in any state of the batch.
Pause ==
    /\ SetState("paused")
    /\ UNCHANGED <<draft, runVars, session, approved>>

Requeue ==
    /\ SetState("queued")
    /\ UNCHANGED <<draft, runVars, session, approved>>

\* act preflight announces the remote check.
MarkPreflighting(s) ==
    /\ session[s].step = "mark"
    /\ SetState("preflighting")
    /\ session' = [session EXCEPT ![s].step = "write"]
    /\ UNCHANGED <<draft, runVars, approved>>

\* The preflight document of a new preflight: nothing is confirmed.
NewDocument(s) == [Empty EXCEPT !.direct = session[s].direct]

\* Drafts without a publishable candidate, found before the remote check.
Blocked(s) == {i \in Items : session[s].draft[i] = NoSource}

\* The state of an item after the check.  A blocked draft stops the check; act
\* leaves the other items queued then, publishNow fails them too.
CheckedItem(s, i, passed) ==
    CASE i \in passed -> "ready"
      [] i \notin passed /\ i \notin Blocked(s) /\ Blocked(s) # {} /\ ~session[s].direct -> "queued"
      [] OTHER -> "failed"

\* recordPreflight, whatever happened to the batch since the read: every item
\* and the whole preflight document are replaced.
RecordPreflight(s) ==
    /\ Writes(s, "preflight")
    /\ generation < MaxGen
    /\ \E passed \in IF Blocked(s) = {} THEN SUBSET Items ELSE {{}} :
        /\ candidate' = [i \in Items |->
               IF i \in passed
               THEN [gen |-> generation + 1, source |-> session[s].draft[i]]
               ELSE NoCandidate]
        /\ item' = [i \in Items |-> CheckedItem(s, i, passed)]
        /\ batch' = IF passed = Items THEN "ready" ELSE "failed"
        /\ IF passed = Items THEN Return(s) ELSE Stop(s)
    /\ pf' = NewDocument(s)
    /\ generation' = generation + 1
    /\ UNCHANGED <<draft, runVars, approved>>

\* Mutant: only the state of the batch is compared.
StateUnchanged(s) == batch = "ready"

\* The batch is ready and its preflight document is the one that was read.
Unchanged(s) == batch = "ready" /\ pf = session[s].pf

\* Mutant: the items are not compared with what was read.
ItemsReady(s) == \A i \in Items : item[i] = "ready"

\* confirm also compares the items.
ItemsUnchanged(s) ==
    \A i \in Items : item[i] = "ready" /\ candidate[i] = session[s].candidate[i]

Confirm(s) ==
    /\ Writes(s, "confirm")
    /\ Unchanged(s) /\ ItemsUnchanged(s)
    /\ pf' = [session[s].pf EXCEPT !.confirmed = session[s].candidate]
    /\ approved' = approved \cup {<<i, session[s].candidate[i]>> : i \in Items}
    /\ Return(s)
    /\ UNCHANGED <<draft, batch, item, candidate, generation, runVars>>

\* recordExecutionPlan
RecordExecutionPlan(s) ==
    /\ Writes(s, "plan-execution")
    /\ Unchanged(s)
    /\ pf' = [session[s].pf EXCEPT !.plan = session[s].candidate]
    /\ Return(s)
    /\ UNCHANGED <<draft, batch, item, candidate, generation, runVars, approved>>

NextRun == {r \in RunIds : run[r].state = "none" /\ \A q \in 1..(r - 1) : run[q].state # "none"}

\* The job of a request may be inserted, or is there already for the same run.
Insertable(plan) == \A i \in Items : job[i][plan[i].gen].state = "none"

\* recordExecutionProtocol with projectPublishExecutionAuthorization: run, jobs
\* and protocol in one transaction.  Every authorization is a new run, so a
\* request that already has a job makes it fail.
RecordExecutionProtocol(s) ==
    LET plan == session[s].pf.plan IN
    /\ Writes(s, "authorize-execution")
    /\ Unchanged(s) /\ Insertable(plan)
    /\ \E r \in NextRun :
        /\ run' = [run EXCEPT ![r] = [state |-> "issued", plan |-> plan, live |-> TRUE]]
        /\ job' = [i \in Items |-> [job[i] EXCEPT
                      ![plan[i].gen] = [state |-> "authorized", runId |-> r]]]
        /\ pf' = [session[s].pf EXCEPT !.protocol = "issued", !.runId = r]
    /\ Return(s)
    /\ UNCHANGED <<draft, batch, item, candidate, generation, call, approved>>

\* consumeExecutionProtocol: the deadline was checked against the time of the
\* read.  The commands of the run's jobs are committed with it.
ConsumeExecutionProtocol(s) ==
    LET r == session[s].pf.runId IN
    /\ Writes(s, "execute")
    /\ run[r].state = "issued"
    /\ Unchanged(s)
    /\ run' = [run EXCEPT ![r].state = "running", ![r].live = FALSE]
    /\ pf' = [session[s].pf EXCEPT !.protocol = "running"]
    /\ Return(s)
    /\ UNCHANGED <<draft, batch, item, candidate, generation, job, call, approved>>

\* The compare fails, the transaction is rolled back and the call throws.
Stale(s) ==
    /\ \/ Writes(s, "confirm") /\ ~(Unchanged(s) /\ ItemsUnchanged(s))
       \/ Writes(s, "plan-execution") /\ ~Unchanged(s)
       \/ Writes(s, "authorize-execution") /\ ~(Unchanged(s) /\ Insertable(session[s].pf.plan))
       \/ Writes(s, "execute") /\ ~(Unchanged(s) /\ run[session[s].pf.runId].state = "issued")
    /\ Stop(s)
    /\ UNCHANGED <<draft, batchVars, runVars, approved>>

\* The process dies, or a call of the database fails.
Abort(s) ==
    /\ session[s].step # "idle"
    /\ Stop(s)
    /\ UNCHANGED <<draft, batchVars, runVars, approved>>

-----------------------------------------------------------------------------
(* The workers, as far as the batch sees them                              *)

\* Mutant: the row is replaced without its run.
ReplaceJob(i, g, state) == job' = [job EXCEPT ![i][g] = [state |-> state]]

SetJob(i, g, state) == job' = [job EXCEPT ![i][g].state = state]

\* recordExecutionFailure of a definite failure: the batch's protocol is marked
\* even when it belongs to another run.
FailJob(i, g, state) ==
    /\ SetJob(i, g, state)
    /\ item' = [item EXCEPT ![i] = IF @ = "completed" THEN @ ELSE "failed"]
    /\ LET open == \E k \in Items : item'[k] \in OpenStates IN
        /\ batch' = IF open THEN "ready" ELSE "failed"
        /\ pf' = IF pf.runId = 0 THEN pf
                 ELSE [pf EXCEPT !.protocol = IF open THEN "partial_failure" ELSE "failed"]
    /\ UNCHANGED <<draft, candidate, generation, run, session, approved>>

\* Mutant: only the draft is compared with the item.
DraftCurrent(i, g) == candidate[i].source = draft[i]

\* The item still holds the candidate of the job, and the draft its source.
SourceCurrent(i, g) == candidate[i].gen = g /\ candidate[i].source = draft[i]

\* Mutant: the run is not asked.
ClaimableAnyway(i, g) == job[i][g].state \in {"authorized", "failed_retryable"}

\* claimNextJob asks for a running run, not for the state of the batch.
Claimable(i, g) ==
    /\ job[i][g].state \in {"authorized", "failed_retryable"}
    /\ run[job[i][g].runId].state = "running"

\* The worker of the job takes its next step, or ends its call.
SetCall(i, g, step, body) == call' = [call EXCEPT ![i][g] = [step |-> step, body |-> body]]
EndCall(i, g) == SetCall(i, g, "none", NoCandidate)

\* claimNextJob
ClaimJob(i, g) ==
    /\ Claimable(i, g)
    /\ SetJob(i, g, "claimed")
    /\ SetCall(i, g, "load", NoCandidate)
    /\ UNCHANGED <<draft, batchVars, run, session, approved>>

\* What loadClaimedExecutionSource asks for.  A claim is lost only for an unknown
\* result, after which nobody claims the job again: a claimed job is claimed by the
\* one call there is.
Loadable(i, g) ==
    /\ job[i][g].state = "claimed"
    /\ run[job[i][g].runId].state = "running"
    /\ SourceCurrent(i, g)

\* loadClaimedExecutionSource: from here on the worker has the body in hand.
LoadSource(i, g) ==
    /\ call[i][g].step = "load"
    /\ Loadable(i, g)
    /\ SetCall(i, g, "post", candidate[i])
    /\ UNCHANGED <<draft, batchVars, run, job, session, approved>>

\* loadClaimedExecutionSource finds nothing: a terminal failure.
SourceChanged(i, g) ==
    /\ call[i][g].step = "load"
    /\ ~Loadable(i, g)
    /\ FailJob(i, g, "failed_terminal")
    /\ EndCall(i, g)

\* The executor has read the credential and posts the body, whatever became of
\* draft, item and claim since the load.
PostJob(i, g) ==
    /\ call[i][g].step = "post"
    /\ IF job[i][g].state = "claimed" THEN SetCall(i, g, "wait", NoCandidate)
                                      ELSE EndCall(i, g)
    /\ UNCHANGED <<draft, batchVars, run, job, session, approved>>

\* SHEIN accepts the product, or the outcome stays unknown; both wait for their
\* readbacks.
AwaitReadback(i, g) ==
    /\ call[i][g].step = "wait"
    /\ SetJob(i, g, "submitted")
    /\ EndCall(i, g)
    /\ UNCHANGED <<draft, batchVars, run, session, approved>>

\* SHEIN rejects the product.
Rejected(i, g) ==
    /\ call[i][g].step = "wait"
    /\ \E state \in {"failed_retryable", "failed_terminal"} : FailJob(i, g, state)
    /\ EndCall(i, g)

\* The worker dies, or the executor throws before its request: the claim stays.
WorkerFails(i, g) ==
    /\ call[i][g].step # "none"
    /\ EndCall(i, g)
    /\ UNCHANGED <<draft, batchVars, run, job, session, approved>>

\* markExpiredClaimsUnknown, while the worker may still be at work: with the body
\* in hand it posts; otherwise it changes nothing any more, since load and outcome
\* ask for its claim.
ClaimExpires(i, g) ==
    /\ job[i][g].state = "claimed"
    /\ SetJob(i, g, "submitted")
    /\ IF call[i][g].step = "post" THEN call' = call ELSE EndCall(i, g)
    /\ UNCHANGED <<draft, batchVars, run, session, approved>>

\* appendComplianceRevalidationReceipt, in one step: PublishExecution shows what
\* happens between its statements.
CompleteJob(i, g) ==
    LET r == job[i][g].runId
        Done(k, h) == job'[k][h].state = "completed" IN
    /\ job[i][g].state \in {"submitted", "completed"}
    /\ SetJob(i, g, "completed")
    /\ item' = [item EXCEPT ![i] = "completed"]
    /\ IF \A k \in Items, h \in Generations : job[k][h].state # "none" => Done(k, h)
       THEN /\ batch' = "completed"
            /\ pf' = IF pf.runId = 0 THEN pf ELSE [pf EXCEPT !.protocol = "completed"]
       ELSE UNCHANGED <<batch, pf>>
    /\ run' = IF /\ run[r].state = "running"
                 /\ \A k \in Items, h \in Generations : job[k][h].runId = r => Done(k, h)
              THEN [run EXCEPT ![r].state = "completed"]
              ELSE run
    /\ UNCHANGED <<draft, candidate, generation, call, session, approved>>

-----------------------------------------------------------------------------
Write(s) ==
    \/ MarkPreflighting(s)
    \/ RecordPreflight(s)
    \/ Confirm(s)
    \/ RecordExecutionPlan(s)
    \/ RecordExecutionProtocol(s)
    \/ ConsumeExecutionProtocol(s)
    \/ Stale(s)

Environment ==
    \/ \E i \in Items : EditDraft(i)
    \/ \E r \in RunIds : AuthorizationDeadline(r)
    \/ \E s \in Sessions : Abort(s)

Workers ==
    \E i \in Items, g \in Generations :
        \/ ClaimJob(i, g)
        \/ LoadSource(i, g) \/ SourceChanged(i, g)
        \/ PostJob(i, g)
        \/ AwaitReadback(i, g) \/ Rejected(i, g)
        \/ WorkerFails(i, g) \/ ClaimExpires(i, g)
        \/ CompleteJob(i, g)

PublishNowStep(s) == BeginPublishNow(s) \/ Read(s) \/ Write(s)

Next ==
    \/ \E s \in Sessions :
        \/ \E action \in Actions : Act(s, action)
        \/ PublishNowStep(s)
    \/ Pause \/ Requeue
    \/ Environment
    \/ Workers

Spec == Init /\ [][Next]_vars

\* Nobody uses the batch except requests to publish it now.
DirectSpec == Init /\ [][(\E s \in Sessions : PublishNowStep(s)) \/ Workers]_vars
-----------------------------------------------------------------------------
(* Properties                                                              *)

Snapshots == [Items -> Candidate]
Documents == [direct : BOOLEAN, confirmed : Snapshots, plan : Snapshots,
              runId : 0..MaxRuns, protocol : ProtocolStates]

TypeOK ==
    /\ draft \in [Items -> Sources]
    /\ batch \in States
    /\ item \in [Items -> States]
    /\ candidate \in Snapshots
    /\ pf \in Documents
    /\ generation \in 0..MaxGen
    /\ run \in [RunIds -> [state : {"none", "issued", "running", "completed"},
                           plan : Snapshots, live : BOOLEAN]]
    /\ job \in [Items -> [Generations -> [state : JobStates, runId : 0..MaxRuns]]]
    /\ call \in [Items -> [Generations -> [step : CallSteps, body : Candidate]]]
    /\ session \in [Sessions -> [step : {"idle", "call", "mark", "write"}, action : Actions,
                                 direct : BOOLEAN, pf : Documents, candidate : Snapshots,
                                 draft : [Items -> Sources]]]
    /\ approved \subseteq Items \X Candidate

\* The preflight document is about the candidates that the items hold now:
\* confirmation, plan and the plan of the authorized run agree with them.
DocumentIsCurrent ==
    /\ pf.confirmed # NoSnapshot => pf.confirmed = candidate
    /\ pf.plan # NoSnapshot => pf.plan = pf.confirmed
    /\ pf.runId # 0 => run[pf.runId].plan = pf.plan

\* A run has a job of its own for every request of its plan: no two
\* authorizations share a request.
RunOwnsItsRequests ==
    \A r \in RunIds : run[r].state # "none" =>
        \A i \in Items : job[i][run[r].plan[i].gen].runId = r

\* The protocol in the document tells the state of its run: still to be
\* consumed while issued, so that no job has moved, and consumed afterwards.
ProtocolTellsRun ==
    /\ pf.protocol = "issued" => run[pf.runId].state = "issued"
    /\ pf.protocol = "running" => run[pf.runId].state \in {"running", "completed"}
    /\ \A i \in Items, g \in Generations :
          job[i][g].state \notin {"none", "authorized"} =>
              run[job[i][g].runId].state \in {"running", "completed"}

\* However a batch is authorized again while an older run of it is at work,
\* jobs, runs and the protocol in the document keep to each other.
RunsStandApart == RunOwnsItsRequests /\ ProtocolTellsRun

\* Whatever calls overlap with preflights, pauses, retries and edits, and however
\* late a worker posts: the body that it has in hand, and may post at any moment, is
\* one that was confirmed in exactly this form and that the run of its job was
\* authorized for.  It was prepared from the draft as it was when the worker loaded
\* it; from then on the draft may be edited, and nothing looks again.
WritesWereConfirmed ==
    [][\A i \in Items, g \in Generations :
          /\ call[i][g].step = "post" =>
                /\ <<i, call[i][g].body>> \in approved
                /\ run[job[i][g].runId].plan[i] = call[i][g].body
          /\ call[i][g].step = "load" /\ call'[i][g].step = "post" =>
                call'[i][g].body.source = draft[i]]_vars

\* An authorization is consumed for what the items hold: at that moment the
\* batch is ready and every candidate is the one of the run's plan.  (An item
\* itself may have failed or been paused meanwhile: a failure of an older run
\* makes a paused batch ready again.)
ConsumedAsPlanned ==
    [][\A r \in RunIds :
          run[r].state = "issued" /\ run'[r].state = "running" =>
              batch = "ready" /\ run[r].plan = candidate]_vars

-----------------------------------------------------------------------------
(* What the documents say and the code does not do                         *)

\* A publish request that is submitted twice under one key makes one run.
OneRunPerRequest == \A r, q \in RunIds : run[r].state # "none" /\ run[q].state # "none" => r = q
=============================================================================
